---- MODULE Spec2Model ----
(***************************************************************************)
(* Model of Sample (src/deluge/model/sample/sample.cpp): the percussive    *)
(* envelope cache (fillPercCache, percCacheClusterStolen,                  *)
(* prepareToReadPercCache) and the render-cache store (getOrCreateCache).  *)
(*                                                                         *)
(* Array indices are the code's (0-based); At(a, i) reads element i.       *)
(***************************************************************************)
EXTENDS Integers, Sequences, FiniteSets, TLC

VARIABLES
    percCacheZones,     \* <<forward, reversed>>: the two zone arrays, each kept in startPos order
    percCacheClusters,  \* <<forward, reversed>>: [allocated: the pointer table exists, slots: the indices whose pointer is set]
    percCacheMemory,    \* <<forward, reversed>>: TRUE when the flat buffer is allocated
    percCacheData,      \* <<forward, reversed>>: the envelope bytes written so far, by pixel index
    lengthInSamples,    \* the Sample's length (fixed when the file is associated)
    audio,              \* the source audio (a waveform), or NoAudio when the smoothing cascade is not followed
    divZero,            \* what the build's 64-bit division yields, shifted and narrowed, for a zero divisor
    mainDirection,      \* the direction the playback layer plays this Sample in; the other one is only touched
    caches,             \* the render-cache index: SampleCacheElements in key order
    heap,               \* the live blocks of the general allocator that hold SampleCaches
    lock,               \* the zone guard (LOCK_ENTRY / LOCK_EXIT)
    last,               \* the last call: its operation, arguments, environment and result
    steps,              \* number of calls made so far
    detect              \* determinePitch: its position, its locals, and the Sample's pitch-detection fields

vars == <<percCacheZones, percCacheClusters, percCacheMemory, percCacheData, lengthInSamples, audio,
          divZero, mainDirection, caches, heap, lock, last, steps, detect>>

(***************************************************************************)
(* Bounds of the model.                                                    *)
(***************************************************************************)
MaxSteps == 3

(***************************************************************************)
(* Program constants and the properties of the modelled Sample.            *)
(***************************************************************************)
kPercBufferReductionMagnitude == 3
kPercBufferReductionSize == 2 ^ kPercBufferReductionMagnitude
clusterSizeMagnitude == 9
clusterSize == 2 ^ clusterSizeMagnitude
kSlack == 2048
numChannels == 1
byteDepth == 2
audioDataStartPosBytes == 44
NO_ERROR == 0
ERROR_INSUFFICIENT_RAM == 1
ERROR_INSERT == 2
GREATER_OR_EQUAL == 0
LESS == -1
NoAudio == "NoAudio"
UNINIT == "UNINIT"

bytesPerSample == numChannels * byteDepth

\* determinePitch is not running, and the Sample's pitch-detection fields are as the constructor leaves them
DetectIdle == [pc |-> "idle", beginningOffsetForPitchDetection |-> 0,
               beginningOffsetForPitchDetectionFound |-> FALSE, calls |-> 0]
bigShift == clusterSizeMagnitude + kPercBufferReductionMagnitude
bigSize == 2 ^ bigShift

Min(a, b) == IF a < b THEN a ELSE b
Max(a, b) == IF a > b THEN a ELSE b
Shr(x, k) == x \div (2 ^ k)
Mask(x, k) == x % (2 ^ k)

Rev(playDirection) == IF playDirection = 1 THEN 0 ELSE 1
Dir(reversed) == IF reversed = 0 THEN 1 ELSE -1
At(a, i) == a[i + 1]
NumElements(a) == Len(a)

(***************************************************************************)
(* SamplePercCacheZone and the ordered zone array.                         *)
(***************************************************************************)
SamplePercCacheZone(newStartPos) ==
    [startPos |-> newStartPos, endPos |-> newStartPos,
     samplesAtStartWhichShouldBeReplaced |-> 0,
     lastSampleRead |-> 0, lastAngle |-> 0, angleLPFMem |-> <<0, 0>>]

resetEndPos(z, newEndPos) ==
    [z EXCEPT !.endPos = newEndPos, !.lastSampleRead = 0, !.lastAngle = 0,
              !.angleLPFMem = <<0, 0>>]

RECURSIVE searchRange(_, _, _, _)
searchRange(a, searchKey, rangeBegin, rangeEnd) ==
    IF rangeBegin = rangeEnd THEN rangeBegin
    ELSE LET examining == rangeBegin + ((rangeEnd - rangeBegin) \div 2)
         IN  IF At(a, examining).startPos < searchKey
             THEN searchRange(a, searchKey, examining + 1, rangeEnd)
             ELSE searchRange(a, searchKey, rangeBegin, examining)

search(a, searchKey, comparison) == searchRange(a, searchKey, 0, NumElements(a)) + comparison

insertAtIndex(a, i, z) == SubSeq(a, 1, i) \o <<z>> \o SubSeq(a, i + 1, Len(a))

deleteAtIndex(a, i, numToDelete) == SubSeq(a, 1, i) \o SubSeq(a, i + numToDelete + 1, Len(a))

setAt(a, i, z) == [a EXCEPT ![i + 1] = z]

(***************************************************************************)
(* Geometry of the Sample's source clusters.                               *)
(***************************************************************************)
audioDataLengthBytes(len) == len * bytesPerSample

numSourceClusters(len) == Shr(audioDataStartPosBytes + audioDataLengthBytes(len) - 1, clusterSizeMagnitude) + 1

getFirstClusterIndexWithAudioData == Shr(audioDataStartPosBytes, clusterSizeMagnitude)

getFirstClusterIndexWithNoAudioData(len) ==
    Min(Shr(audioDataStartPosBytes + audioDataLengthBytes(len) - 1, clusterSizeMagnitude) + 1,
        numSourceClusters(len))

lengthInSamplesAfterReduction(len) == Max(Shr(len - 1, kPercBufferReductionMagnitude) + 1, 1)

percCacheDoneWithClusters(len) == lengthInSamplesAfterReduction(len) >= Shr(clusterSize, 1)

numPercCacheClusters(len) == Shr(lengthInSamplesAfterReduction(len) - 1, clusterSizeMagnitude) + 1

(***************************************************************************)
(* fillPercCache: one run of the loading loop (one source cluster, one     *)
(* destination slot), lines 513-666.  st is the loop's state:              *)
(*   numSamples, startPosSamples, sourceBytePos, zone (the zone being      *)
(*   extended), tab (this direction's set slot pointers), data, slotBudget     *)
(*   (slot allocations that will still succeed), error, stopped.           *)
(***************************************************************************)
samplesLeftThisDestCluster(startPosSamples, reversed) ==
    LET posWithinPercClusterBig == Mask(startPosSamples, bigShift)
    IN  IF reversed = 1 THEN posWithinPercClusterBig + 1 ELSE bigSize - posWithinPercClusterBig

bytesLeftThisSourceCluster(sourceBytePos, reversed) ==
    LET bytePosWithinCluster == Mask(sourceBytePos, clusterSizeMagnitude)
    IN  IF reversed = 1 THEN bytePosWithinCluster + bytesPerSample
        ELSE clusterSize - bytePosWithinCluster + bytesPerSample - 1

numSamplesThisRun(numSamplesThisClusterReadWrite, sourceBytePos, reversed) ==
    LET bytesLeft == bytesLeftThisSourceCluster(sourceBytePos, reversed)
        bytesWeWantToRead == numSamplesThisClusterReadWrite * bytesPerSample
    IN  IF bytesWeWantToRead > bytesLeft + bytesPerSample
        THEN bytesLeft \div bytesPerSample
        ELSE numSamplesThisClusterReadWrite

\* The source audio: the 16-bit sample at sample index p of waveform aud.
sampleValue(aud, p) ==
    IF p < 0 THEN 0
    ELSE IF aud = "ramp" THEN ((p * 37) % 2001) * 16 - 16000
    ELSE IF aud = "pulse" THEN (IF p % 64 < 3 THEN 30000 ELSE 0 - ((p * 7) % 50))
    ELSE IF p < 4080 \/ p > 5930 THEN 0 ELSE ((p * 101) % 1024) * 8 - 4096

\* Lines 592, 620-622: the 32-bit word ending with the sample at sourceBytePos (the
\* sample in its high half, the bytes before it below), shifted down by two.
thisSampleRead(aud, sourceBytePos) ==
    LET p == (sourceBytePos - audioDataStartPosBytes) \div bytesPerSample
    IN  Shr(sampleValue(aud, p) * 65536 + (sampleValue(aud, p - 1) % 65536), 2)

Abs(x) == IF x < 0 THEN 0 - x ELSE x

\* The element of a one-element set: Only({e(v) : v \in {x}}) is e(x) with x evaluated once.
Only(S) == CHOOSE x \in S : TRUE

\* One step of the long division of r * 2^bits by angle: the next quotient bit.
fractionBit(d, angle) ==
    LET bit == IF 2 * d.r >= angle THEN 1 ELSE 0
    IN  [r |-> 2 * d.r - bit * angle, q |-> 2 * d.q + bit]

RECURSIVE fractionBitsUpTo(_, _, _)
fractionBitsUpTo(d, angle, bits) ==
    IF bits <= 1 THEN fractionBit(d, angle)
    ELSE Only({fractionBitsUpTo(half, angle, bits - (bits \div 2)) :
                   half \in {fractionBitsUpTo(d, angle, bits \div 2)}})

\* floor(r * 2^bits / angle) for 0 <= r < angle and bits > 0, one quotient bit at a time.
fractionBits(r, angle, bits) == fractionBitsUpTo([r |-> r, q |-> 0], angle, bits).q

\* Line 654: ((uint64_t)difference * 262144 / angle) >> 1 as an int32_t.  The quotient
\* for angle = 0 is what the build's division yields for a zero divisor.
percussivenessOf(difference, angle, onZeroDivisor) ==
    IF angle = 0 THEN onZeroDivisor
    ELSE LET hi == (difference \div angle) % 2 ^ 15
         IN  Only({IF hi >= 2 ^ 14 THEN low - 2 ^ 30 - 2 ^ 30 ELSE low :
                       low \in {(hi % 2 ^ 14) * 2 ^ 17
                                + Shr(fractionBits(difference % angle, angle, 18), 1)}})

\* getTanH<23>: the saturating nonlinearity, here clamping to 9 bits and dropping two.
getTanH23(x) == Only({Shr(Max(0 - 256, Min(255, v)), 2) : v \in {x}})

\* percCacheNow[index] = value.
writeByte(data, index, value) == (index :> (value % 256)) @@ data

\* Lines 615-633: one sample through the smoothing cascade.
sampleStep(zone, read) ==
    LET pole1 == zone.angleLPFMem[1] + Shr(Abs(read - zone.lastSampleRead) - zone.angleLPFMem[1], 9)
        pole2 == zone.angleLPFMem[2] + Shr(pole1 - zone.angleLPFMem[2], 9)
    IN  [zone EXCEPT !.lastSampleRead = read, !.angleLPFMem = <<pole1, pole2>>]

\* Lines 611-641: n samples of one perc pixel segment, n > 0.  lastAngle is set after
\* every sample but the segment's last, whose angle is the zone's angleLPFMem[2].
RECURSIVE segmentSamples(_, _, _, _, _)
segmentSamples(zone, sourceBytePos, n, posIncrement, aud) ==
    IF n <= 1 THEN sampleStep(zone, thisSampleRead(aud, sourceBytePos))
    ELSE Only({segmentSamples([half EXCEPT !.lastAngle = half.angleLPFMem[2]],
                              sourceBytePos + (n \div 2) * posIncrement, n - (n \div 2), posIncrement, aud) :
                   half \in {segmentSamples(zone, sourceBytePos, n \div 2, posIncrement, aud)}})

\* Lines 597-604: the samples left up to the end of the perc pixel segment.
numSamplesLeftThisPercPixelSegment(startPosSamples, reversed) ==
    LET left == IF reversed = 1
                THEN Mask(startPosSamples + 1 + kPercBufferReductionSize \div 2, kPercBufferReductionMagnitude)
                ELSE kPercBufferReductionSize
                     - Mask(startPosSamples + kPercBufferReductionSize \div 2, kPercBufferReductionMagnitude)
    IN  IF left = 0 THEN kPercBufferReductionSize ELSE left

\* percPixelSegment with lastAngle left alone when no byte is written.
percPixelSegmentKeepAngle(loop, playDirection, aud) ==
    LET reversed == Rev(playDirection)
        k == Min(loop.n, numSamplesLeftThisPercPixelSegment(loop.startPosSamples, reversed))
        pos1 == loop.startPosSamples + k * playDirection
        write == Mask(pos1, kPercBufferReductionMagnitude) = kPercBufferReductionSize \div 2 - reversed
    IN  Only({[zone |-> IF write THEN [seg EXCEPT !.lastAngle = seg.angleLPFMem[2]] ELSE seg,
               data |-> IF write
                        THEN writeByte(loop.data, Shr(pos1, kPercBufferReductionMagnitude),
                                       getTanH23(percussivenessOf(Abs(seg.angleLPFMem[2] - seg.lastAngle),
                                                                  seg.angleLPFMem[2], aud.divZero)))
                        ELSE loop.data,
               startPosSamples |-> pos1,
               sourceBytePos |-> loop.sourceBytePos + k * bytesPerSample * playDirection,
               n |-> loop.n - k] :
              seg \in {segmentSamples(loop.zone, loop.sourceBytePos, k, bytesPerSample * playDirection,
                                      aud.wave)}})

\* Lines 594-663: one perc pixel segment of the run.  loop is the state of the inner
\* do-while: zone, data, startPosSamples, sourceBytePos and n, the samples left in the run.
percPixelSegment(loop, playDirection, aud) ==
    LET reversed == Rev(playDirection)
        k == Min(loop.n, numSamplesLeftThisPercPixelSegment(loop.startPosSamples, reversed))
        pos1 == loop.startPosSamples + k * playDirection
        write == Mask(pos1, kPercBufferReductionMagnitude) = kPercBufferReductionSize \div 2 - reversed
    IN  Only({[zone |-> [seg EXCEPT !.lastAngle = seg.angleLPFMem[2]],
               data |-> IF write
                        THEN writeByte(loop.data, Shr(pos1, kPercBufferReductionMagnitude),
                                       getTanH23(percussivenessOf(Abs(seg.angleLPFMem[2] - seg.lastAngle),
                                                                  seg.angleLPFMem[2], aud.divZero)))
                        ELSE loop.data,
               startPosSamples |-> pos1,
               sourceBytePos |-> loop.sourceBytePos + k * bytesPerSample * playDirection,
               n |-> loop.n - k] :
              seg \in {segmentSamples(loop.zone, loop.sourceBytePos, k, bytesPerSample * playDirection,
                                      aud.wave)}})

\* Lines 594-664: do { ... } while (numSamplesThisClusterReadWrite), at most bound
\* segments of it.
RECURSIVE percPixelSegmentsUpTo(_, _, _, _)
percPixelSegmentsUpTo(loop, bound, playDirection, aud) ==
    IF loop.n <= 0 THEN loop
    ELSE IF bound <= 1 THEN percPixelSegment(loop, playDirection, aud)
    ELSE Only({percPixelSegmentsUpTo(half, bound - (bound \div 2), playDirection, aud) :
                   half \in {percPixelSegmentsUpTo(loop, bound \div 2, playDirection, aud)}})

\* Every segment but the first and the last is a whole perc pixel.
RECURSIVE percPixelSegments(_, _, _)
percPixelSegments(loop, playDirection, aud) ==
    Only({IF after.n <= 0 THEN after ELSE percPixelSegments(after, playDirection, aud) :
              after \in {percPixelSegmentsUpTo(loop, 2 + loop.n \div kPercBufferReductionSize,
                                               playDirection, aud)}})

\* The samples of one run through the smoothing cascade (lines 592-664); the cascade
\* is not followed when the audio is NoAudio.
processRun(zone, data, startPosSamples, sourceBytePos, n, playDirection, aud) ==
    IF aud.wave = NoAudio THEN [zone |-> zone, data |-> data]
    ELSE Only({percPixelSegments(loop, playDirection, aud) :
                   loop \in {[zone |-> zone, data |-> data, startPosSamples |-> startPosSamples,
                              sourceBytePos |-> sourceBytePos, n |-> n]}})

fillOneRun(st, playDirection, env, len) ==
    LET reversed == Rev(playDirection)
        sourceClusterIndex == Shr(st.sourceBytePos, clusterSizeMagnitude)
        percClusterIndex == Shr(st.startPosSamples, bigShift)
        withClusters == percCacheDoneWithClusters(len)
        needSlot == withClusters /\ percClusterIndex \notin st.tab
        tab1 == IF needSlot /\ st.slotBudget > 0 THEN st.tab \cup {percClusterIndex} ELSE st.tab
        n1 == IF withClusters
              THEN Min(st.numSamples, samplesLeftThisDestCluster(st.startPosSamples, reversed))
              ELSE st.numSamples
        n == numSamplesThisRun(n1, st.sourceBytePos, reversed)
    IN  IF \/ sourceClusterIndex >= getFirstClusterIndexWithNoAudioData(len)
           \/ sourceClusterIndex < getFirstClusterIndexWithAudioData
        THEN [st EXCEPT !.stopped = TRUE]
        ELSE IF needSlot /\ st.slotBudget = 0
        THEN [st EXCEPT !.stopped = TRUE, !.error = ERROR_INSUFFICIENT_RAM]
        ELSE IF sourceClusterIndex \in env.missing
        THEN [st EXCEPT !.stopped = TRUE, !.tab = tab1,
                        !.slotBudget = IF needSlot THEN @ - 1 ELSE @]
        ELSE Only({[st EXCEPT !.numSamples = @ - n,
                              !.zone = dsp.zone,
                              !.data = dsp.data,
                              !.sourceBytePos = @ + n * bytesPerSample * playDirection,
                              !.startPosSamples = @ + n * playDirection,
                              !.tab = tab1,
                              !.slotBudget = IF needSlot THEN @ - 1 ELSE @,
                              !.runs = @ + 1] :
                       dsp \in {processRun([st.zone EXCEPT !.endPos = @ + n * playDirection], st.data,
                                           st.startPosSamples, st.sourceBytePos, n, playDirection,
                                           env.aud)}})

\* do { ... } while (numSamples): at most bound further runs from st.  The runs are
\* taken in two halves so that the evaluation depth stays logarithmic in their number.
RECURSIVE fillRunsUpTo(_, _, _, _, _)
fillRunsUpTo(st, bound, playDirection, env, len) ==
    IF st.stopped \/ st.numSamples = 0 THEN st
    ELSE IF bound <= 1 THEN fillOneRun(st, playDirection, env, len)
    ELSE Only({fillRunsUpTo(half, bound - (bound \div 2), playDirection, env, len) :
                   half \in {fillRunsUpTo(st, bound \div 2, playDirection, env, len)}})

\* Every run but the last ends where a source cluster or a perc cluster ends.
runsBound(numSamples) == 2 + (numSamples * bytesPerSample) \div clusterSize + numSamples \div bigSize

RECURSIVE fillRuns(_, _, _, _)
fillRuns(st, playDirection, env, len) ==
    Only({IF after.stopped \/ after.numSamples = 0 THEN after
          ELSE fillRuns(after, playDirection, env, len) :
              after \in {fillRunsUpTo(st, runsBound(st.numSamples), playDirection, env, len)}})

(***************************************************************************)
(* fillPercCache, lines 272-716.  The Sample's state for one direction is  *)
(* S = [zones, hasTab, tab, mem, data]; env is what the collaborators answer       *)
(* during the call: missing (source clusters not loaded), slotBudget,      *)
(* tableOK (direction storage allocation), insertOK (zone insert), aud.    *)
(* The result is the set of outcomes the call can have: records            *)
(*   [S, ret, path, i, resumePos, numSamples, runs, sourceBytePos].        *)
(***************************************************************************)
\* fillOutcome with the error the call met dropped from what it returns.
fillOutcomeNoError(S, ret, path, i, resumePos, runs, sourceBytePos) ==
    [S |-> S, ret |-> NO_ERROR, path |-> path, i |-> i, resumePos |-> resumePos, runs |-> runs,
     sourceBytePos |-> sourceBytePos]

fillOutcome(S, ret, path, i, resumePos, runs, sourceBytePos) ==
    [S |-> S, ret |-> ret, path |-> path, i |-> i, resumePos |-> resumePos, runs |-> runs,
     sourceBytePos |-> sourceBytePos]

\* getOut (lines 701-705) where percCacheZone still points at element i.
getOut(zs, i) ==
    IF At(zs, i).endPos = At(zs, i).startPos THEN deleteAtIndex(zs, i, 1) ELSE zs

\* getOut after deleteAtIndex(i) of the join (line 679): percCacheZone is the address
\* element i had, which now holds the stale copy or the element moved onto it.
getOutAfterDelete(zs, i, stale) ==
    LET held == {stale} \cup {At(zs, j) : j \in {i - 1, i} \cap (0 .. NumElements(zs) - 1)}
    IN  {IF z.endPos = z.startPos THEN deleteAtIndex(zs, i, 1) ELSE zs : z \in held}

\* afterLoading with the next zone's provisional-prefix count left as it was when the
\* next zone is trimmed.
afterLoadingKeepsPrefix(zs, i, zone, playDirection, willHitNextElement, endPosSamples, endPosSamplesLimit) ==
    LET iNext == i + playDirection
        done == [zone EXCEPT !.samplesAtStartWhichShouldBeReplaced =
                     Max(kSlack, (zone.endPos - zone.startPos) * playDirection)]
        zs1 == setAt(zs, i, done)
        next == At(zs, iNext)
    IN  IF ~willHitNextElement THEN {[zones |-> getOut(zs1, i), joined |-> FALSE]}
        ELSE IF (endPosSamples - endPosSamplesLimit) * playDirection >= 0
        THEN {[zones |-> zs2, joined |-> TRUE] :
                 zs2 \in getOutAfterDelete(
                             deleteAtIndex(
                                 setAt(zs1, iNext,
                                       [next EXCEPT !.startPos = done.startPos,
                                                    !.samplesAtStartWhichShouldBeReplaced =
                                                        done.samplesAtStartWhichShouldBeReplaced]),
                                 i, 1),
                             i, done)}
        ELSE {[zones |-> getOut(setAt(zs1, iNext, [next EXCEPT !.startPos = endPosSamples]), i),
               joined |-> FALSE]}

\* Lines 668-688: the loop has completed; zs still holds the zone as it was at entry.
\* The result is the set of [zones, joined] the call can end with.
afterLoading(zs, i, zone, playDirection, willHitNextElement, endPosSamples, endPosSamplesLimit) ==
    LET iNext == i + playDirection
        done == [zone EXCEPT !.samplesAtStartWhichShouldBeReplaced =
                     Max(kSlack, (zone.endPos - zone.startPos) * playDirection)]
        zs1 == setAt(zs, i, done)
        next == At(zs, iNext)
    IN  IF ~willHitNextElement THEN {[zones |-> getOut(zs1, i), joined |-> FALSE]}
        ELSE IF (endPosSamples - endPosSamplesLimit) * playDirection >= 0
        THEN {[zones |-> zs2, joined |-> TRUE] :
                 zs2 \in getOutAfterDelete(
                             deleteAtIndex(
                                 setAt(zs1, iNext,
                                       [next EXCEPT !.startPos = done.startPos,
                                                    !.samplesAtStartWhichShouldBeReplaced =
                                                        done.samplesAtStartWhichShouldBeReplaced]),
                                 i, 1),
                             i, done)}
        ELSE {[zones |-> getOut(setAt(zs1, iNext,
                                      [next EXCEPT !.samplesAtStartWhichShouldBeReplaced =
                                                       @ - (endPosSamples - next.startPos) * playDirection,
                                                   !.startPos = endPosSamples]),
                                i),
               joined |-> FALSE]}

\* Lines 471-477: don't shoot past the end of the waveform.
clampToWaveform(endPosSamples, reversed, len) ==
    IF reversed = 0 THEN Min(endPosSamples, len) ELSE Max(endPosSamples, -1)

\* clampToBudget with maxNumSamplesToProcess not looked at.
clampToBudgetIgnored(endPosSamples, startPosSamples, maxNumSamplesToProcess, playDirection) ==
    endPosSamples

\* Lines 480-483: no further than maxNumSamplesToProcess from where the loading starts.
clampToBudget(endPosSamples, startPosSamples, maxNumSamplesToProcess, playDirection) ==
    LET endPosSamplesLimit0 == startPosSamples + maxNumSamplesToProcess * playDirection
    IN  IF (endPosSamples - endPosSamplesLimit0) * playDirection >= 0 THEN endPosSamplesLimit0
        ELSE endPosSamples

\* doLoading (lines 461-716): extend element i of S.zones from startPosSamples.
doLoading(S, i, startPosSamples, endPosIn, playDirection, maxNumSamplesToProcess, env, len, path) ==
    LET reversed == Rev(playDirection)
        zs == S.zones
        end1 == clampToWaveform(endPosIn, reversed, len)
        end2 == clampToBudget(end1, startPosSamples, maxNumSamplesToProcess, playDirection)
        iNext == i + playDirection
        hasNext == iNext >= 0 /\ iNext < NumElements(zs)
        next == At(zs, iNext)
        willHitNextElement == hasNext /\ (end2 - next.startPos) * playDirection >= 0
        endPosSamplesLimit ==
            IF willHitNextElement
            THEN next.startPos + next.samplesAtStartWhichShouldBeReplaced * playDirection
            ELSE UNINIT
        endPosSamples == IF willHitNextElement /\ (end2 - endPosSamplesLimit) * playDirection >= 0
                         THEN endPosSamplesLimit ELSE end2
        numSamples == (endPosSamples - startPosSamples) * playDirection
        st0 == [numSamples |-> numSamples, startPosSamples |-> startPosSamples,
                sourceBytePos |-> audioDataStartPosBytes + startPosSamples * bytesPerSample,
                zone |-> At(zs, i), tab |-> S.tab, data |-> S.data,
                slotBudget |-> env.slotBudget, error |-> NO_ERROR, stopped |-> FALSE, runs |-> 0]
    IN  IF numSamples <= 0
        THEN {fillOutcome([S EXCEPT !.zones = getOut(zs, i)], NO_ERROR, path \o "-nothing", i,
                          startPosSamples, 0, UNINIT)}
        ELSE UNION {IF st.stopped
                    THEN {fillOutcome([S EXCEPT !.tab = st.tab, !.data = st.data,
                                                !.zones = getOut(setAt(zs, i, st.zone), i)],
                                      st.error, path \o "-stopped", i, startPosSamples, st.runs,
                                      st.sourceBytePos)}
                    ELSE {fillOutcome([S EXCEPT !.tab = st.tab, !.data = st.data, !.zones = r.zones],
                                      NO_ERROR, path \o (IF r.joined THEN "-joined" ELSE "-done"), i,
                                      startPosSamples, st.runs, st.sourceBytePos) :
                              r \in afterLoading(zs, i, st.zone, playDirection, willHitNextElement,
                                                 endPosSamples, endPosSamplesLimit)} :
                       st \in UNION {{fillRuns(st1, playDirection, env, len)} : st1 \in {st0}}}

\* beyondWaveform with the last position of the direction taken to be one further.
beyondWaveformOffByOne(startPosSamples, reversed, len) ==
    IF reversed = 0 THEN startPosSamples > len ELSE startPosSamples < 0 - 1

\* Lines 303-331: this direction's storage, allocated on first use.
storageMissing(S, len) == IF percCacheDoneWithClusters(len) THEN ~S.hasTab ELSE ~S.mem

\* allocateStorage with the slot table cleared on every call (the memset of line 313
\* moved out of the allocation).
allocateStorageCleared(S, len) ==
    IF percCacheDoneWithClusters(len) THEN [S EXCEPT !.hasTab = TRUE, !.tab = {}]
    ELSE [S EXCEPT !.mem = TRUE]

allocateStorage(S, len) ==
    IF percCacheDoneWithClusters(len) THEN [S EXCEPT !.hasTab = TRUE] ELSE [S EXCEPT !.mem = TRUE]

beyondWaveform(startPosSamples, reversed, len) ==
    IF reversed = 0 THEN startPosSamples >= len ELSE startPosSamples < 0

\* Lines 336-342: the zone at or before startPosSamples, in direction order.
findZone(zs, startPosSamples, reversed) ==
    IF reversed = 0 THEN search(zs, startPosSamples + 1, LESS)
    ELSE search(zs, startPosSamples, GREATER_OR_EQUAL)

\* withinSlack with the comparison made strict.
withinSlackStrict(zone, startPosSamples, playDirection) ==
    (zone.endPos - startPosSamples) * playDirection > -kSlack

\* Line 356: the zone ends after startPosSamples, or less than the slack before it.
withinSlack(zone, startPosSamples, playDirection) ==
    (zone.endPos - startPosSamples) * playDirection >= -kSlack

fillPercCache(S, startPosSamples, endPosSamples, playDirection, maxNumSamplesToProcess, env, len) ==
    LET reversed == Rev(playDirection)
        S1 == allocateStorage(S, len)
        zs == S.zones
        i == findZone(zs, startPosSamples, reversed)
        found == i >= 0 /\ i < NumElements(zs)
        zone == At(zs, i)
        iNew == IF reversed = 0 THEN i + 1 ELSE i
    IN  IF beyondWaveform(startPosSamples, reversed, len)
        THEN {fillOutcome(S, NO_ERROR, "beyond", UNINIT, startPosSamples, 0, UNINIT)}
        ELSE IF storageMissing(S, len) /\ ~env.tableOK
        THEN {fillOutcome(S, ERROR_INSUFFICIENT_RAM, "noStorage", UNINIT, startPosSamples, 0, UNINIT)}
        ELSE IF found /\ withinSlack(zone, startPosSamples, playDirection)
        THEN IF beyondWaveform(zone.endPos, reversed, len)
             THEN {fillOutcome(S1, NO_ERROR, "snapBeyond", i, zone.endPos, 0, UNINIT)}
             ELSE IF (zone.endPos - endPosSamples) * playDirection >= 0
             THEN {fillOutcome(S1, NO_ERROR, "covered", i, zone.endPos, 0, UNINIT)}
             ELSE doLoading(S1, i, zone.endPos, endPosSamples, playDirection,
                            maxNumSamplesToProcess, env, len, "snap")
        ELSE IF ~env.insertOK
        THEN {fillOutcome(S1, ERROR_INSERT, "insertFail", iNew, startPosSamples, 0, UNINIT)}
        ELSE doLoading([S1 EXCEPT !.zones = insertAtIndex(zs, iNew, SamplePercCacheZone(startPosSamples))],
                       iNew, startPosSamples, endPosSamples, playDirection,
                       maxNumSamplesToProcess, env, len, "create")

(***************************************************************************)
(* percCacheClusterStolen, lines 882-993.                                  *)
(***************************************************************************)
leftBorder(clusterIndex) == clusterIndex * bigSize
rightBorder(clusterIndex) == (clusterIndex + 1) * bigSize
laterBorder(clusterIndex, reversed) ==
    IF reversed = 1 THEN leftBorder(clusterIndex) - 1 ELSE rightBorder(clusterIndex)
earlierBorder(clusterIndex, reversed) ==
    IF reversed = 1 THEN rightBorder(clusterIndex) - 1 ELSE leftBorder(clusterIndex)

\* splitZone with the provisional-prefix count left on the later zone.
splitZoneCountOnLater(zs, iEarlier, clusterIndex, reversed, insertOK) ==
    LET zoneEarlier == At(zs, iEarlier)
        zs1 == setAt(zs, iEarlier, [zoneEarlier EXCEPT !.startPos = laterBorder(clusterIndex, reversed)])
        iNew == IF reversed = 1 THEN iEarlier + 1 ELSE iEarlier
        newZone == [SamplePercCacheZone(zoneEarlier.startPos) EXCEPT
                        !.endPos = earlierBorder(clusterIndex, reversed)]
    IN  IF insertOK THEN insertAtIndex(zs1, iNew, newZone) ELSE zs1

\* Lines 931-955: the zone at iEarlier shoots out the other side of the stolen cluster.
splitZone(zs, iEarlier, clusterIndex, reversed, insertOK) ==
    LET zoneEarlier == At(zs, iEarlier)
        oldStartPos == zoneEarlier.startPos
        oldSamplesAtStartWhichShouldBeReplaced == zoneEarlier.samplesAtStartWhichShouldBeReplaced
        zs1 == setAt(zs, iEarlier,
                     [zoneEarlier EXCEPT !.startPos = laterBorder(clusterIndex, reversed),
                                         !.samplesAtStartWhichShouldBeReplaced = 0])
        iNew == IF reversed = 1 THEN iEarlier + 1 ELSE iEarlier
        newZone == [SamplePercCacheZone(oldStartPos) EXCEPT
                        !.samplesAtStartWhichShouldBeReplaced = oldSamplesAtStartWhichShouldBeReplaced,
                        !.endPos = earlierBorder(clusterIndex, reversed)]
    IN  IF insertOK THEN insertAtIndex(zs1, iNew, newZone) ELSE zs1

\* Lines 964-990: trim the later zone and delete what lies in between.
trimLater(zs, iEarlier, clusterIndex, reversed) ==
    LET playDirection == Dir(reversed)
        later == laterBorder(clusterIndex, reversed)
        iLater0 == search(zs, later + reversed, IF reversed = 1 THEN GREATER_OR_EQUAL ELSE LESS)
        isLater == (iLater0 - iEarlier) * playDirection > 0
        zoneLater == At(zs, iLater0)
        trims == isLater /\ (zoneLater.endPos - later) * playDirection > 0
        zs1 == IF trims
               THEN setAt(zs, iLater0,
                          [zoneLater EXCEPT !.samplesAtStartWhichShouldBeReplaced =
                                                Max(0, @ - (later - zoneLater.startPos) * playDirection),
                                            !.startPos = later])
               ELSE zs
        iLater == IF trims THEN iLater0 ELSE iLater0 + playDirection
        numToDelete == (iLater - iEarlier) * playDirection - 1
        deleteFrom == IF reversed = 1 THEN iLater + 1 ELSE iEarlier + 1
    IN  IF numToDelete # 0 THEN deleteAtIndex(zs1, deleteFrom, numToDelete) ELSE zs1

percCacheClusterStolen(S, clusterIndex, reversed, insertOK) ==
    LET playDirection == Dir(reversed)
        zs == S.zones
        earlier == earlierBorder(clusterIndex, reversed)
        later == laterBorder(clusterIndex, reversed)
        iEarlier == search(zs, earlier + reversed, IF reversed = 1 THEN GREATER_OR_EQUAL ELSE LESS)
        found == iEarlier >= 0 /\ iEarlier < NumElements(zs)
        zoneEarlier == At(zs, iEarlier)
        eatsIn == found /\ (zoneEarlier.endPos - earlier) * playDirection > 0
        shootsOut == eatsIn /\ (zoneEarlier.endPos - later) * playDirection > 0
        S1 == [S EXCEPT !.tab = @ \ {clusterIndex},
                        !.data = [p \in {q \in DOMAIN @ : Shr(q, clusterSizeMagnitude) # clusterIndex} |-> @[p]]]
    IN  IF shootsOut
        THEN [S |-> [S1 EXCEPT !.zones = splitZone(zs, iEarlier, clusterIndex, reversed, insertOK)],
              path |-> IF insertOK THEN "split" ELSE "splitInsertFail", iEarlier |-> iEarlier]
        ELSE [S |-> [S1 EXCEPT !.zones =
                        trimLater(IF eatsIn THEN setAt(zs, iEarlier, resetEndPos(zoneEarlier, earlier)) ELSE zs,
                                  iEarlier, clusterIndex, reversed)],
              path |-> "trim", iEarlier |-> iEarlier]

(***************************************************************************)
(* getOrCreateCache, lines 175-249.  A SampleCacheElement is               *)
(* [phaseIncrement, timeStretchRatio, skipSamplesAtStart, reversed, cache]; *)
(* its first four words are the key the index is ordered by.  A block of   *)
(* the heap is [id, numClusters, waveformLengthBytes]; NULL is 0.          *)
(***************************************************************************)
kUnity == 16777216
kMaxCacheBytes == 33554432
kRingOutTimeStretch == 16384
kInterpolationMaxNumSamples == 16
kCacheByteDepth == 3
kQuotientCeiling == 67108864

\* keyWords with the direction left out of the key.
keyWordsNoDirection(phaseIncrement, timeStretchRatio, skipSamplesAtStart, reversed) ==
    <<phaseIncrement, timeStretchRatio, skipSamplesAtStart, 0>>

\* Lines 186-190.
keyWords(phaseIncrement, timeStretchRatio, skipSamplesAtStart, reversed) ==
    <<phaseIncrement, timeStretchRatio, skipSamplesAtStart, IF reversed THEN 1 ELSE 0>>

keyOf(element) ==
    <<element.phaseIncrement, element.timeStretchRatio, element.skipSamplesAtStart, element.reversed>>

RECURSIVE wordsLess(_, _)
wordsLess(k1, k2) ==
    IF k1 = <<>> THEN FALSE
    ELSE Head(k1) < Head(k2) \/ (Head(k1) = Head(k2) /\ wordsLess(Tail(k1), Tail(k2)))

\* The number of elements whose key is below words: where words is, or belongs.
keyPosition(a, words) == Cardinality({j \in 1 .. Len(a) : wordsLess(keyOf(a[j]), words)})

searchMultiWordExact(a, words) ==
    LET i == keyPosition(a, words)
    IN  IF i < Len(a) /\ keyOf(a[i + 1]) = words THEN i ELSE 0 - 1

\* The array with a new element holding words at its place in key order.
insertAtKeyMultiWord(a, words) ==
    insertAtIndex(a, keyPosition(a, words),
                  [phaseIncrement |-> words[1], timeStretchRatio |-> words[2],
                   skipSamplesAtStart |-> words[3], reversed |-> words[4], cache |-> 0])

\* Line 205: ((uint64_t)phaseIncrement * timeStretchRatio) >> 24, by 12-bit halves
\* (for operands below 2^27).
combinedIncrementOf(phaseIncrement, timeStretchRatio) ==
    LET ph == Shr(phaseIncrement, 12)
        pl == Mask(phaseIncrement, 12)
        th == Shr(timeStretchRatio, 12)
        tl == Mask(timeStretchRatio, 12)
    IN  ph * th + Shr(ph * tl + pl * th + Shr(pl * tl, 12), 12)

\* Line 207: (n << 24) / combinedIncrement for a nonzero divisor.  Quotients of 2^26
\* and more (all far above the cap) are given as 2^26.
shiftedQuotient(n, combinedIncrement) ==
    IF n \div combinedIncrement >= 4 THEN kQuotientCeiling
    ELSE (n \div combinedIncrement) * kUnity + fractionBits(n % combinedIncrement, combinedIncrement, 24)

\* Lines 207-208: the outcomes of the division plus one.  Dividing by zero is undefined:
\* the quotient is 0, or has all 64 bits set and wraps to 0 with the + 1.
lengthInSamplesCachedBase(n, combinedIncrement) ==
    IF combinedIncrement = 0 THEN {1, 0} ELSE {shiftedQuotient(n, combinedIncrement) + 1}

\* Lines 211-218 with the ring-out of the time stretching left out.
lengthInBytesCachedNoRingOut(base, phaseIncrement, timeStretchRatio) ==
    (base + (IF phaseIncrement # kUnity THEN kInterpolationMaxNumSamples \div 2 ELSE 0))
    * kCacheByteDepth * numChannels

\* Lines 211-218.
lengthInBytesCachedOf(base, phaseIncrement, timeStretchRatio) ==
    (base + (IF phaseIncrement # kUnity THEN kInterpolationMaxNumSamples \div 2 ELSE 0)
          + (IF timeStretchRatio # kUnity THEN kRingOutTimeStretch ELSE 0))
    * kCacheByteDepth * numChannels

\* The cap of line 220 with the comparison made strict and the bound doubled.
tooBigDoubled(lengthInBytesCached) == lengthInBytesCached > 2 * kMaxCacheBytes

\* Line 220.
tooBig(lengthInBytesCached) == lengthInBytesCached >= kMaxCacheBytes

cacheOutcome(C, H, ret, created, path, lengthInBytesCached) ==
    [caches |-> C, heap |-> H, ret |-> ret, created |-> created, path |-> path,
     lengthInBytesCached |-> lengthInBytesCached]

\* The allocator's answer: a block not in use.
newBlock(H) == CHOOSE id \in 1 .. Cardinality(H) + 1 : \A blk \in H : blk.id # id

\* Lines 224-248 with the block freed again after a failed insert left out.
createCacheLeaking(C, H, words, element, lengthInBytesCached, env) ==
    LET numClusters == Shr(lengthInBytesCached - 1, clusterSizeMagnitude) + 1
        memory == [id |-> newBlock(H), numClusters |-> numClusters,
                   waveformLengthBytes |-> lengthInBytesCached]
        i == keyPosition(C, words)
        C1 == insertAtKeyMultiWord(C, words)
    IN  IF ~env.allocOK THEN cacheOutcome(C, H, 0, "unwritten", "allocFail", lengthInBytesCached)
        ELSE IF ~env.insertOK
        THEN cacheOutcome(C, H \cup {memory}, 0, "unwritten", "insertFail", lengthInBytesCached)
        ELSE cacheOutcome(setAt(C1, i, [element EXCEPT !.cache = memory.id]), H \cup {memory},
                          memory.id, "true", "created", lengthInBytesCached)

\* Lines 224-248: allocate, insert the key, construct the SampleCache in the block.
createCache(C, H, words, element, lengthInBytesCached, env) ==
    LET numClusters == Shr(lengthInBytesCached - 1, clusterSizeMagnitude) + 1
        memory == [id |-> newBlock(H), numClusters |-> numClusters,
                   waveformLengthBytes |-> lengthInBytesCached]
        i == keyPosition(C, words)
        C1 == insertAtKeyMultiWord(C, words)
    IN  IF ~env.allocOK THEN cacheOutcome(C, H, 0, "unwritten", "allocFail", lengthInBytesCached)
        ELSE IF ~env.insertOK
        THEN cacheOutcome(C, H, 0, "unwritten", "insertFail", lengthInBytesCached)
        ELSE cacheOutcome(setAt(C1, i, [element EXCEPT !.cache = memory.id]), H \cup {memory},
                          memory.id, "true", "created", lengthInBytesCached)

\* Lines 199-203 with the mayCreate test left out.
missMayNotCreateIgnored(mayCreate) == FALSE

\* Lines 199-203: a miss when the caller does not allow creation.
missMayNotCreate(mayCreate) == ~mayCreate

\* sampleHolder is [startPos, endPos]; the result is the set of outcomes of the call,
\* created being "unwritten" when *created is left as the caller had it and
\* lengthInBytesCached being -1 when the call did not compute it.
getOrCreateCache(C, H, sampleHolder, phaseIncrement, timeStretchRatio, reversed, mayCreate, env, len) ==
    LET skipSamplesAtStart == IF ~reversed THEN sampleHolder.startPos ELSE len - sampleHolder.endPos
        words == keyWords(phaseIncrement, timeStretchRatio, skipSamplesAtStart, reversed)
        i == searchMultiWordExact(C, words)
        combinedIncrement == combinedIncrementOf(phaseIncrement, timeStretchRatio)
        element == [phaseIncrement |-> phaseIncrement, timeStretchRatio |-> timeStretchRatio,
                    skipSamplesAtStart |-> skipSamplesAtStart, reversed |-> IF reversed THEN 1 ELSE 0,
                    cache |-> 0]
    IN  IF i # 0 - 1 THEN {cacheOutcome(C, H, At(C, i).cache, "false", "hit", 0 - 1)}
        ELSE IF missMayNotCreate(mayCreate)
        THEN {cacheOutcome(C, H, 0, "unwritten", "missNoCreate", 0 - 1)}
        ELSE {IF tooBig(lengthInBytesCachedOf(base, phaseIncrement, timeStretchRatio))
              THEN cacheOutcome(C, H, 0, "unwritten", "tooBig",
                                lengthInBytesCachedOf(base, phaseIncrement, timeStretchRatio))
              ELSE createCache(C, H, words, element,
                               lengthInBytesCachedOf(base, phaseIncrement, timeStretchRatio), env) :
                  base \in lengthInSamplesCachedBase(len - skipSamplesAtStart, combinedIncrement)}

(***************************************************************************)
(* The render-cache store under calls of getOrCreateCache by the voices.   *)
(***************************************************************************)
MaxCalls == 3

CacheSampleLengths == {10000, 12000000}

\* <<phaseIncrement, timeStretchRatio>>
CacheRatios ==
    {<<kUnity, kUnity>>, <<2 * kUnity, kUnity>>, <<kUnity, kUnity \div 2>>, <<kUnity, 1>>,
     <<kUnity \div 2, 1>>, <<kUnity + kUnity \div 2, kUnity>>}

SampleHolders == {[startPos |-> 100, endPos |-> lengthInSamples - 50]}

\* What the allocator and the index answer during one call.
CacheEnvironments ==
    {[allocOK |-> TRUE, insertOK |-> TRUE], [allocOK |-> FALSE, insertOK |-> TRUE],
     [allocOK |-> TRUE, insertOK |-> FALSE]}

InitCache ==
    /\ percCacheZones = <<<<>>, <<>>>>
    /\ percCacheClusters = <<[allocated |-> FALSE, slots |-> {}], [allocated |-> FALSE, slots |-> {}]>>
    /\ percCacheMemory = <<FALSE, FALSE>>
    /\ percCacheData = <<<<>>, <<>>>>
    /\ lengthInSamples \in CacheSampleLengths
    /\ audio = NoAudio
    /\ divZero = 0
    /\ mainDirection = 1
    /\ caches = <<>>
    /\ heap = {}
    /\ lock = FALSE
    /\ last = [op |-> "init"]
    /\ steps = 0
    /\ detect = DetectIdle

GetOrCreateCache ==
    /\ steps < MaxCalls
    /\ \E ratios \in CacheRatios, sampleHolder \in SampleHolders, reversed \in BOOLEAN, mayCreate \in BOOLEAN,
          env \in CacheEnvironments :
          \E out \in getOrCreateCache(caches, heap, sampleHolder, ratios[1], ratios[2], reversed, mayCreate,
                                      env, lengthInSamples) :
              /\ caches' = out.caches
              /\ heap' = out.heap
              /\ last' = [op |-> "getOrCreateCache", phaseIncrement |-> ratios[1],
                          timeStretchRatio |-> ratios[2], sampleHolder |-> sampleHolder,
                          reversed |-> reversed, mayCreate |-> mayCreate, env |-> env,
                          ret |-> out.ret, created |-> out.created, path |-> out.path,
                          lengthInBytesCached |-> out.lengthInBytesCached]
    /\ steps' = steps + 1
    /\ UNCHANGED <<percCacheZones, percCacheClusters, percCacheMemory, percCacheData, lengthInSamples,
                   audio, divZero, mainDirection, lock, detect>>

NextCache == GetOrCreateCache

SpecCache == InitCache /\ [][NextCache]_vars

(***************************************************************************)
(* The state machine: calls of fillPercCache by the playback layer and     *)
(* evictions by the cluster pool, each a whole call.                       *)
(***************************************************************************)
SampleLengths == {10000}

\* The calls the playback layer makes: <<start, end, maxNumSamplesToProcess>>, as
\* distances from the beginning of the waveform in the direction of play.
FillRequests ==
    {<<0, 100, 5000>>, <<2148, 2200, 5000>>, <<2149, 2200, 5000>>, <<3100, 3200, 5000>>,
     <<0, 4400, 5000>>, <<4000, 8300, 5000>>, <<0, 4400, 300>>, <<10000, 10100, 5000>>,
     <<9900, 10100, 5000>>}

\* The other direction is only touched at the beginning of the waveform.
OtherRequests == {<<0, 100, 5000>>}

RequestsFor(playDirection) == IF playDirection = mainDirection THEN FillRequests ELSE OtherRequests

StateOf(reversed) ==
    [zones |-> percCacheZones[reversed + 1], hasTab |-> percCacheClusters[reversed + 1].allocated,
     tab |-> percCacheClusters[reversed + 1].slots,
     mem |-> percCacheMemory[reversed + 1], data |-> percCacheData[reversed + 1]]

\* What the collaborators can answer during one call.
Environments ==
    LET ok == [missing |-> {}, slotBudget |-> 4, tableOK |-> TRUE, insertOK |-> TRUE, aud |-> [wave |-> audio, divZero |-> divZero]]
    IN  {ok, [ok EXCEPT !.tableOK = FALSE], [ok EXCEPT !.insertOK = FALSE],
         [ok EXCEPT !.slotBudget = 0], [ok EXCEPT !.missing = {13, 25}],
         [ok EXCEPT !.missing = {17, 21}], [ok EXCEPT !.missing = {30}]}

EnvironmentsFor(playDirection) ==
    IF playDirection = mainDirection THEN Environments
    ELSE {e \in Environments : e.missing = {} /\ e.tableOK /\ e.insertOK /\ e.slotBudget > 0}

\* LOCK_ENTRY and LOCK_EXIT (lines 44-56) and the TimeStretcher calls, in the order
\* the exit path of a call runs them.  The guard after a trace is what its last
\* LOCK_ENTRY or LOCK_EXIT left; a trace without either leaves it as it was.
GuardEvents == {"LOCK_ENTRY", "LOCK_EXIT"}

guardAfter(held, trace) ==
    LET g == {k \in 1 .. Len(trace) : trace[k] \in GuardEvents}
    IN  IF g = {} THEN held ELSE trace[CHOOSE k \in g : \A j \in g : j <= k] = "LOCK_ENTRY"

\* fillGuardTrace with the LOCK_EXIT of the failed zone insert (line 455) left out.
fillGuardTraceInsertKeepsGuard(path) ==
    IF path = "beyond" THEN <<>>
    ELSE IF path = "insertFail" THEN <<"LOCK_ENTRY">>
    ELSE IF path \in {"noStorage", "snapBeyond"} THEN <<"LOCK_ENTRY", "LOCK_EXIT">>
    ELSE IF path = "covered" THEN <<"LOCK_ENTRY", "unassignAllReasonsForPercLookahead", "LOCK_EXIT">>
    ELSE <<"LOCK_ENTRY", "LOCK_EXIT", "updateClustersForPercLookahead">>

\* fillPercCache: returns of lines 284 and 289 (before LOCK_ENTRY at 293), 310 and 325
\* (storage), 367 (doReturnNoError: beyond after the snap, and already covered after
\* line 433), 455 (zone insert), and getOut (lines 701-715).
fillGuardTrace(path) ==
    IF path = "beyond" THEN <<>>
    ELSE IF path \in {"noStorage", "insertFail", "snapBeyond"} THEN <<"LOCK_ENTRY", "LOCK_EXIT">>
    ELSE IF path = "covered" THEN <<"LOCK_ENTRY", "unassignAllReasonsForPercLookahead", "LOCK_EXIT">>
    ELSE <<"LOCK_ENTRY", "LOCK_EXIT", "updateClustersForPercLookahead">>

\* percCacheClusterStolen: LOCK_ENTRY at line 883, LOCK_EXIT at 945 (split insert
\* failed), 953 (split) and 992.
stolenGuardTrace(path) == <<"LOCK_ENTRY", "LOCK_EXIT">>

\* The samples the loop of lines 513-666 went through: how far sourceBytePos has moved.
samplesProcessed(out, playDirection) ==
    IF out.runs = 0 THEN 0
    ELSE ((out.sourceBytePos - audioDataStartPosBytes) \div bytesPerSample - out.resumePos) * playDirection

Store(reversed, S) ==
    /\ percCacheZones' = [percCacheZones EXCEPT ![reversed + 1] = S.zones]
    /\ percCacheClusters' = [percCacheClusters EXCEPT ![reversed + 1] = [allocated |-> S.hasTab, slots |-> S.tab]]
    /\ percCacheMemory' = [percCacheMemory EXCEPT ![reversed + 1] = S.mem]
    /\ percCacheData' = [percCacheData EXCEPT ![reversed + 1] = S.data]

Init ==
    /\ percCacheZones = <<<<>>, <<>>>>
    /\ percCacheClusters = <<[allocated |-> FALSE, slots |-> {}], [allocated |-> FALSE, slots |-> {}]>>
    /\ percCacheMemory = <<FALSE, FALSE>>
    /\ percCacheData = <<<<>>, <<>>>>
    /\ lengthInSamples \in SampleLengths
    /\ audio = NoAudio
    /\ divZero = 0
    /\ mainDirection \in {1, -1}
    /\ caches = <<>>
    /\ heap = {}
    /\ lock = FALSE
    /\ last = [op |-> "init"]
    /\ steps = 0
    /\ detect = DetectIdle

Fill ==
    /\ steps < MaxSteps
    /\ ~lock
    /\ \E playDirection \in {1, -1} :
       \E req \in RequestsFor(playDirection), env \in EnvironmentsFor(playDirection) :
          LET reversed == Rev(playDirection)
              startPosSamples == IF reversed = 0 THEN req[1] ELSE lengthInSamples - 1 - req[1]
              endPosSamples == IF reversed = 0 THEN req[2] ELSE lengthInSamples - 1 - req[2]
          IN  \E out \in fillPercCache(StateOf(reversed), startPosSamples, endPosSamples, playDirection,
                                       req[3], env, lengthInSamples) :
                  /\ Store(reversed, out.S)
                  /\ last' = [op |-> "fill", reversed |-> reversed, startPosSamples |-> startPosSamples,
                              endPosSamples |-> endPosSamples, maxNumSamplesToProcess |-> req[3],
                              ret |-> out.ret, path |-> out.path, resumePos |-> out.resumePos,
                              runs |-> out.runs, i |-> out.i,
                              processed |-> samplesProcessed(out, playDirection), env |-> env]
    /\ lock' = guardAfter(lock, fillGuardTrace(last'.path))
    /\ steps' = steps + 1
    /\ UNCHANGED <<lengthInSamples, audio, divZero, mainDirection, caches, heap, detect>>

Evict ==
    /\ steps < MaxSteps
    /\ ~lock
    /\ \E reversed \in {0, 1}, insertOK \in BOOLEAN :
          /\ \E clusterIndex \in percCacheClusters[reversed + 1].slots :
                \E out \in {percCacheClusterStolen(StateOf(reversed), clusterIndex, reversed, insertOK)} :
                    /\ Store(reversed, out.S)
                    /\ last' = [op |-> "evict", reversed |-> reversed, clusterIndex |-> clusterIndex,
                                insertOK |-> insertOK, path |-> out.path]
    /\ lock' = guardAfter(lock, stolenGuardTrace(last'.path))
    /\ steps' = steps + 1
    /\ UNCHANGED <<lengthInSamples, audio, divZero, mainDirection, caches, heap, detect>>

Next == Fill \/ Evict

Spec == Init /\ [][Next]_vars

(***************************************************************************)
(* Properties.                                                             *)
(***************************************************************************)
Zones(reversed) == percCacheZones[reversed + 1]
Slots(reversed) == percCacheClusters[reversed + 1].slots

\* The zones of a direction in the order of play: At(InPlayOrder(r), 0) is the earliest.
InPlayOrder(reversed) ==
    LET zs == Zones(reversed)
    IN  IF reversed = 0 THEN zs ELSE [j \in 1 .. Len(zs) |-> zs[Len(zs) + 1 - j]]

DirectedLength(z, reversed) == (z.endPos - z.startPos) * Dir(reversed)

\* The source positions zone z covers.
Covered(z, reversed) ==
    IF reversed = 0 THEN z.startPos .. (z.endPos - 1) ELSE (z.endPos + 1) .. z.startPos

\* The slots holding the positions zone z covers.
SlotsOf(z, reversed) ==
    IF DirectedLength(z, reversed) <= 0 THEN {}
    ELSE IF reversed = 0 THEN Shr(z.startPos, bigShift) .. Shr(z.endPos - 1, bigShift)
    ELSE Shr(z.endPos + 1, bigShift) .. Shr(z.startPos, bigShift)

\* C1: after any sequence of fill and onChunkEvicted calls the zones of each direction
\* are strictly ordered by position and no zone ends past the start of the next one.
C1_ZonesOrderedAndDisjoint ==
    \A reversed \in {0, 1} :
        LET zs == InPlayOrder(reversed)
        IN  \A j \in 1 .. Len(zs) - 1 :
                /\ (zs[j + 1].startPos - zs[j].startPos) * Dir(reversed) > 0
                /\ (zs[j].endPos - zs[j + 1].startPos) * Dir(reversed) <= 0

\* C2: when fill or onChunkEvicted returns, every zone has strictly positive directed length.
C2_ZonesNonEmpty ==
    \A reversed \in {0, 1} :
        \A j \in 1 .. Len(Zones(reversed)) : DirectedLength(Zones(reversed)[j], reversed) > 0

\* C3: with chunk-based storage every position a zone covers lies in an allocated slot,
\* and right after the eviction of slot k no zone of that direction covers a position of it.
C3_CoveredIsAllocated ==
    /\ \A reversed \in {0, 1} :
           \A j \in 1 .. Len(Zones(reversed)) :
               SlotsOf(Zones(reversed)[j], reversed) \subseteq Slots(reversed)
    /\ last.op = "evict" =>
           /\ last.clusterIndex \notin Slots(last.reversed)
           /\ \A j \in 1 .. Len(Zones(last.reversed)) :
                  last.clusterIndex \notin SlotsOf(Zones(last.reversed)[j], last.reversed)

FillStep == steps' = steps + 1 /\ last'.op = "fill"
EvictStep == steps' = steps + 1 /\ last'.op = "evict"

\* C4 as stated: when the evicted range [L, R) lies strictly inside a forward zone [s, e)
\* and the insert succeeds, that zone is replaced by [s, L) and [R, e), the later zone
\* keeps the original provisional-prefix count, and the slot is cleared.
C4_SplitLaterKeepsCount ==
    [][(EvictStep /\ last'.reversed = 0 /\ last'.insertOK) =>
          LET k == last'.clusterIndex
              zs == percCacheZones[1]
              after == percCacheZones'[1]
          IN  \A j \in 1 .. Len(zs) :
                  (zs[j].startPos < leftBorder(k) /\ rightBorder(k) < zs[j].endPos) =>
                      /\ Len(after) = Len(zs) + 1
                      /\ after[j].startPos = zs[j].startPos /\ after[j].endPos = leftBorder(k)
                      /\ after[j + 1].startPos = rightBorder(k) /\ after[j + 1].endPos = zs[j].endPos
                      /\ after[j + 1].samplesAtStartWhichShouldBeReplaced =
                             zs[j].samplesAtStartWhichShouldBeReplaced
                      /\ \A m \in 1 .. Len(zs) : m # j => after[IF m < j THEN m ELSE m + 1] = zs[m]
                      /\ k \notin percCacheClusters'[1].slots]_vars

\* C4 amended: when the last forward zone starting before L, [s, e), extends past R and
\* the insert succeeds, it is replaced by [s, L) and [R, e); the earlier zone [s, L) keeps
\* the original provisional-prefix count, the later zone [R, e) has count 0; the slot is cleared.
C4_SplitEarlierKeepsCount ==
    [][(EvictStep /\ last'.reversed = 0 /\ last'.insertOK) =>
          LET k == last'.clusterIndex
              zs == percCacheZones[1]
              after == percCacheZones'[1]
              j == search(zs, leftBorder(k), LESS) + 1
          IN  (j >= 1 /\ zs[j].startPos < leftBorder(k) /\ rightBorder(k) < zs[j].endPos) =>
                  /\ Len(after) = Len(zs) + 1
                  /\ after[j].startPos = zs[j].startPos /\ after[j].endPos = leftBorder(k)
                  /\ after[j].samplesAtStartWhichShouldBeReplaced =
                         zs[j].samplesAtStartWhichShouldBeReplaced
                  /\ after[j + 1] = [zs[j] EXCEPT !.startPos = rightBorder(k),
                                                  !.samplesAtStartWhichShouldBeReplaced = 0]
                  /\ \A m \in 1 .. Len(zs) : m # j => after[IF m < j THEN m ELSE m + 1] = zs[m]
                  /\ k \notin percCacheClusters'[1].slots]_vars

\* A forward zone has just been split in two around an evicted slot, and the earlier
\* part carries a provisional-prefix count.
C4_Witness ==
    /\ last.op = "evict" /\ last.reversed = 0 /\ last.path = "split"
    /\ \E j \in 1 .. Len(Zones(0)) - 1 :
           /\ Zones(0)[j].endPos = leftBorder(last.clusterIndex)
           /\ Zones(0)[j + 1].startPos = rightBorder(last.clusterIndex)
           /\ Zones(0)[j].samplesAtStartWhichShouldBeReplaced > 0
           /\ Zones(0)[j + 1].samplesAtStartWhichShouldBeReplaced = 0

\* Y has its start or a covered position between P and start (in the direction of play).
C5_Between(y, P, start, reversed) ==
    LET d == Dir(reversed)
        lastCovered == y.endPos - d
        inGap(x) == (x - P) * d >= 0 /\ (start - x) * d >= 0
    IN  inGap(y.startPos) \/ (DirectedLength(y, reversed) > 0 /\ inGap(lastCovered))
        \/ ((P - y.startPos) * d >= 0 /\ (lastCovered - start) * d >= 0 /\ DirectedLength(y, reversed) > 0)

\* C5 as stated: with a zone ending at P and no other zone between P and startPos, a fill
\* starting 0..2048 samples past P adds no zone and resumes from P; one starting more than
\* 2048 past P creates a new zone beginning at startPos.
C5_SlackMergeAsStated ==
    [][FillStep =>
          LET r == last'.reversed
              d == Dir(r)
              zs == percCacheZones[r + 1]
              after == percCacheZones'[r + 1]
              start == last'.startPosSamples
          IN  \A j \in 1 .. Len(zs) :
                  LET P == zs[j].endPos
                      gap == (start - P) * d
                  IN  (gap >= 0 /\ \A m \in 1 .. Len(zs) : m # j => ~C5_Between(zs[m], P, start, r)) =>
                          /\ gap <= kSlack => Len(after) <= Len(zs) /\ last'.resumePos = P
                          /\ gap > kSlack =>
                                 /\ Len(after) = Len(zs) + 1
                                 /\ \E m \in 1 .. Len(after) : after[m].startPos = start]_vars

\* C5 amended: let the zone the directional search finds for startPos (the last zone in
\* play order starting at or before it) end at P, with startPos inside the waveform.  If
\* startPos is 0..2048 samples past P the fill adds no zone and resumes from P.  If it is
\* more than 2048 past P the fill does not resume from P: it returns the insert error, or
\* inserts a new zone beginning at startPos, which is there on return (one zone more)
\* whenever at least one run was processed and the extension was not joined with the next zone.
C5_SlackMerge ==
    [][FillStep =>
          LET r == last'.reversed
              d == Dir(r)
              zs == percCacheZones[r + 1]
              after == percCacheZones'[r + 1]
              start == last'.startPosSamples
              i == findZone(zs, start, r)
              P == At(zs, i).endPos
              gap == (start - P) * d
          IN  (i >= 0 /\ i < NumElements(zs) /\ gap >= 0
                 /\ ~beyondWaveform(start, r, lengthInSamples)) =>
                  /\ gap <= kSlack => Len(after) <= Len(zs) /\ last'.resumePos = P
                  /\ gap > kSlack =>
                         /\ last'.path \in {"insertFail", "create-nothing", "create-stopped",
                                            "create-done", "create-joined"}
                         /\ last'.path = "insertFail" => last'.ret = ERROR_INSERT /\ after = zs
                         /\ (last'.path \in {"create-stopped", "create-done"} /\ last'.runs > 0) =>
                                /\ Len(after) = Len(zs) + 1
                                /\ \E m \in 1 .. Len(after) : after[m].startPos = start]_vars

\* A fill began exactly 2048 samples past the end of the zone before it and resumed
\* from that zone's end.
C5_Witness ==
    /\ last.op = "fill"
    /\ last.path \in {"snap-done", "snap-stopped", "snap-joined"}
    /\ (last.startPosSamples - last.resumePos) * Dir(last.reversed) = kSlack
    /\ last.runs > 0

(***************************************************************************)
(* Resuming a zone: one Sample, empty at first, is filled over [a, b) and  *)
(* then over [b, c); the same range filled by one call on the empty Sample *)
(* is kept beside the result.                                              *)
(***************************************************************************)
Waveforms == {"ramp", "pulse", "late"}

\* What the division by a zero angle can leave in percussiveness: 0, or all bits set.
DivZeroOutcomes == {0, 0 - 1}

\* <<a, b>> and c, as distances from the beginning of the waveform in the direction of play.
ResumeFirst ==
    {<<4000, 4068>>, <<4000, 4074>>, <<4000, 4075>>, <<4060, 4075>>, <<4060, 4096>>, <<4000, 4100>>,
     <<2000, 4075>>, <<2000, 4099>>}
ResumeEnds == {4104, 4200, 4340}
ResumeBudget == 5000

Mirror(reversed, distance) == IF reversed = 0 THEN distance ELSE lengthInSamples - 1 - distance

AllResident == [missing |-> {}, slotBudget |-> 4, tableOK |-> TRUE, insertOK |-> TRUE,
                aud |-> [wave |-> audio, divZero |-> divZero]]

\* What the claim compares: the envelope bytes, and each zone's range and filter state.
Resumable(S) ==
    [data |-> S.data,
     zones |-> [j \in 1 .. Len(S.zones) |->
                   [startPos |-> S.zones[j].startPos, endPos |-> S.zones[j].endPos,
                    lastSampleRead |-> S.zones[j].lastSampleRead, lastAngle |-> S.zones[j].lastAngle,
                    angleLPFMem |-> S.zones[j].angleLPFMem]]]

InitResume ==
    /\ percCacheZones = <<<<>>, <<>>>>
    /\ percCacheClusters = <<[allocated |-> FALSE, slots |-> {}], [allocated |-> FALSE, slots |-> {}]>>
    /\ percCacheMemory = <<FALSE, FALSE>>
    /\ percCacheData = <<<<>>, <<>>>>
    /\ lengthInSamples \in SampleLengths
    /\ audio \in Waveforms
    /\ divZero \in DivZeroOutcomes
    /\ mainDirection \in {1, -1}
    /\ caches = <<>>
    /\ heap = {}
    /\ lock = FALSE
    /\ last = [op |-> "init"]
    /\ steps = 0
    /\ detect = DetectIdle

FillFirstPart ==
    /\ steps = 0
    /\ ~lock
    /\ \E req \in ResumeFirst :
          LET reversed == Rev(mainDirection)
              a == Mirror(reversed, req[1])
              b == Mirror(reversed, req[2])
          IN  \E out \in fillPercCache(StateOf(reversed), a, b, mainDirection, ResumeBudget,
                                       AllResident, lengthInSamples) :
                  /\ Store(reversed, out.S)
                  /\ last' = [op |-> "first", reversed |-> reversed, a |-> a, b |-> b,
                              ret |-> out.ret, path |-> out.path, empty |-> StateOf(reversed)]
    /\ lock' = FALSE
    /\ steps' = 1
    /\ UNCHANGED <<lengthInSamples, audio, divZero, mainDirection, caches, heap, detect>>

FillSecondPart ==
    /\ steps = 1
    /\ ~lock
    /\ \E end \in ResumeEnds :
          LET reversed == Rev(mainDirection)
              c == Mirror(reversed, end)
          IN  \E out \in fillPercCache(StateOf(reversed), last.b, c, mainDirection, ResumeBudget,
                                       AllResident, lengthInSamples),
                 whole \in fillPercCache(last.empty, last.a, c, mainDirection, ResumeBudget,
                                         AllResident, lengthInSamples) :
                  /\ Store(reversed, out.S)
                  /\ last' = [op |-> "second", reversed |-> reversed, a |-> last.a, b |-> last.b, c |-> c,
                              ret |-> out.ret, path |-> out.path, first |-> last.path,
                              whole |-> [ret |-> whole.ret, path |-> whole.path,
                                         result |-> Resumable(whole.S)]]
    /\ lock' = FALSE
    /\ steps' = 2
    /\ UNCHANGED <<lengthInSamples, audio, divZero, mainDirection, caches, heap, detect>>

NextResume == FillFirstPart \/ FillSecondPart

SpecResume == InitResume /\ [][NextResume]_vars

\* C6: for the same audio and direction, with every source cluster loaded and nothing
\* evicted, filling [a, b) and then [b, c) leaves the envelope bytes and the zone's
\* endPos, lastSampleRead, lastAngle and low-pass accumulators as one fill of [a, c) does.
C6_ResumeEqualsOneFill ==
    last.op = "second" =>
        /\ last.first = "create-done" /\ last.path = "snap-done" /\ last.whole.path = "create-done"
        /\ Resumable(StateOf(last.reversed)) = last.whole.result

\* The second fill resumed a zone that had stopped in the middle of a perc pixel, past a
\* source cluster boundary, and envelope bytes have been written on both sides of b.
C6_Witness ==
    /\ last.op = "second" /\ last.path = "snap-done"
    /\ Mask(last.b, kPercBufferReductionMagnitude) # kPercBufferReductionSize \div 2 - last.reversed
    /\ Len(Zones(last.reversed)) = 1
    /\ Zones(last.reversed)[1].lastAngle # 0 /\ Zones(last.reversed)[1].angleLPFMem[2] # 0
    /\ \E q1, q2 \in DOMAIN percCacheData[last.reversed + 1] :
           /\ (q1 * kPercBufferReductionSize - last.b) * Dir(last.reversed) < 0
           /\ (q2 * kPercBufferReductionSize - last.b) * Dir(last.reversed) > 0
           /\ percCacheData[last.reversed + 1][q1] # 0
           /\ percCacheData[last.reversed + 1][q2] # 0

CacheStep == steps' = steps + 1 /\ last'.op = "getOrCreateCache"

\* The 4-field key of the call recorded in l.
KeyOfCall(l) ==
    <<l.phaseIncrement, l.timeStretchRatio,
      IF l.reversed THEN lengthInSamples - l.sampleHolder.endPos ELSE l.sampleHolder.startPos,
      IF l.reversed THEN 1 ELSE 0>>

EntriesWithKey(C, key) == {j \in 1 .. Len(C) : keyOf(C[j]) = key}

StoreUnchanged == caches' = caches /\ heap' = heap

\* C7: the store never holds two entries with one key; a call whose key is in the store
\* returns that entry with created = false whatever mayCreate is and changes nothing; a
\* call that reports created = true had no entry for its key and returns a new one, now
\* the entry of that key; entries already in the store stay as they are.
C7_KeyUniqueness ==
    [][CacheStep =>
          LET key == KeyOfCall(last')
          IN  /\ \A j, k \in 1 .. Len(caches') : keyOf(caches'[j]) = keyOf(caches'[k]) => j = k
              /\ \A j \in 1 .. Len(caches) : \E k \in 1 .. Len(caches') : caches'[k] = caches[j]
              /\ EntriesWithKey(caches, key) # {} =>
                     /\ last'.created = "false"
                     /\ \A j \in EntriesWithKey(caches, key) : last'.ret = caches[j].cache
                     /\ StoreUnchanged
              /\ last'.created = "true" =>
                     /\ EntriesWithKey(caches, key) = {}
                     /\ last'.ret # 0
                     /\ \A blk \in heap : blk.id # last'.ret
                     /\ \A j \in 1 .. Len(caches) : caches[j].cache # last'.ret
                     /\ \E j \in EntriesWithKey(caches', key) : caches'[j].cache = last'.ret
                     /\ Len(caches') = Len(caches) + 1]_vars

\* A call that may not create has just been answered with an entry created earlier,
\* in a store that also holds the entry of the same ratios played the other way.
C7_Witness ==
    /\ last.op = "getOrCreateCache" /\ last.path = "hit" /\ ~last.mayCreate
    /\ last.ret # 0 /\ last.created = "false"
    /\ \E j, k \in 1 .. Len(caches) :
           /\ caches[j].cache = last.ret
           /\ caches[k].phaseIncrement = caches[j].phaseIncrement
           /\ caches[k].timeStretchRatio = caches[j].timeStretchRatio
           /\ caches[k].reversed # caches[j].reversed

\* C8: a miss that computes lengthInBytesCached >= 32 MiB returns NULL, allocates
\* nothing and inserts no key.
C8_SizeCap ==
    [][(CacheStep /\ last'.lengthInBytesCached >= kMaxCacheBytes) =>
          /\ last'.ret = 0
          /\ last'.path = "tooBig"
          /\ StoreUnchanged]_vars

\* A creating call was refused for a cache of 32 MiB or more, though less than 64 MiB,
\* while the store held other entries.
C8_Witness ==
    /\ last.op = "getOrCreateCache" /\ last.path = "tooBig" /\ last.ret = 0
    /\ last.lengthInBytesCached >= kMaxCacheBytes /\ last.lengthInBytesCached < 2 * kMaxCacheBytes
    /\ last.mayCreate /\ last.env.allocOK /\ last.env.insertOK

\* C9: a call that finds no entry for its key and has mayCreate = false returns NULL
\* and leaves the index and the heap as they were.
C9_MissWithoutCreate ==
    [][(CacheStep /\ EntriesWithKey(caches, KeyOfCall(last')) = {} /\ ~last'.mayCreate) =>
          /\ last'.ret = 0
          /\ StoreUnchanged]_vars

\* A call that may not create has just missed in a store that holds other entries,
\* with an allocator and an index that would have let it create.
C9_Witness ==
    /\ last.op = "getOrCreateCache" /\ last.path = "missNoCreate" /\ last.ret = 0
    /\ Len(caches) >= 1 /\ last.env.allocOK /\ last.env.insertOK
    /\ last.lengthInBytesCached = 0 - 1

\* C10: a creating miss in which the allocation or the index insert fails returns NULL
\* with the index and the heap as before the call (the block is freed again), so the key
\* still has no entry.
C10_CreationRollback ==
    [][(CacheStep /\ EntriesWithKey(caches, KeyOfCall(last')) = {} /\ last'.mayCreate
          /\ (~last'.env.allocOK \/ ~last'.env.insertOK)) =>
          /\ last'.ret = 0
          /\ StoreUnchanged
          /\ EntriesWithKey(caches', KeyOfCall(last')) = {}]_vars

\* The index insert has just failed after the block was allocated, in a store with
\* other entries.
C10_Witness ==
    /\ last.op = "getOrCreateCache" /\ last.path = "insertFail" /\ last.ret = 0
    /\ Len(caches) >= 1 /\ Cardinality(heap) = Len(caches)

\* The zone as the claims compare it: its range and its provisional-prefix count.
RangeOf(z) ==
    [startPos |-> z.startPos, endPos |-> z.endPos,
     samplesAtStartWhichShouldBeReplaced |-> z.samplesAtStartWhichShouldBeReplaced]

\* A fill stopped early: a source cluster was not loaded or no storage slot could be had.
StoppedEarly(l) == l.op = "fill" /\ l.path \in {"snap-stopped", "create-stopped"}

\* C11: when a fill stops early because a source chunk is not loaded or a storage slot
\* cannot be allocated, the extended zone's endPos is its value at entry advanced by
\* exactly the samples of the runs processed in this call, and no other zone is modified.
C11_PartialProgress ==
    [][(FillStep /\ StoppedEarly(last')) =>
          LET r == last'.reversed
              zs == percCacheZones[r + 1]
              after == percCacheZones'[r + 1]
              j == last'.i + 1
              advance == last'.processed * Dir(r)
          IN  IF last'.path = "snap-stopped"
              THEN /\ Len(after) = Len(zs)
                   /\ RangeOf(after[j]) = RangeOf([zs[j] EXCEPT !.endPos = @ + advance])
                   /\ \A m \in 1 .. Len(zs) : m # j => after[m] = zs[m]
              ELSE IF last'.processed = 0 THEN after = zs
              ELSE /\ Len(after) = Len(zs) + 1
                   /\ after[j].startPos = last'.startPosSamples
                   /\ after[j].endPos = last'.startPosSamples + advance
                   /\ \A m \in 1 .. Len(zs) : after[IF m < j THEN m ELSE m + 1] = zs[m]]_vars

\* C12: a fill whose startPos is already beyond the file in its direction (forward:
\* startPos >= lengthInSamples; reversed: startPos < 0) returns NO_ERROR and changes
\* nothing: zones, envelope storage, storage allocation state and the guard.
C12_BeyondIsNoOp ==
    [][(FillStep /\ (IF last'.reversed = 0 THEN last'.startPosSamples >= lengthInSamples
                     ELSE last'.startPosSamples < 0)) =>
          /\ last'.ret = NO_ERROR
          /\ UNCHANGED <<percCacheZones, percCacheClusters, percCacheMemory, percCacheData, lock>>]_vars

\* Such a fill has returned while the direction's storage table was never allocated and
\* the allocator would have refused it.
C12_Witness ==
    /\ last.op = "fill" /\ last.path = "beyond" /\ last.ret = NO_ERROR
    /\ ~percCacheClusters[last.reversed + 1].allocated
    /\ ~last.env.tableOK

\* A fill that reached doLoading.
Loading(l) ==
    l.op = "fill" /\ l.path \in {p \o q : p \in {"snap", "create"},
                                          q \in {"-nothing", "-stopped", "-done", "-joined"}}

\* C13: a single fill call advances the extended zone's endPos by at most
\* maxNumSamplesToProcess samples in the direction of play, and never past the file
\* bounds (lengthInSamples forward, -1 reversed).
C13_WorkBound ==
    [][(FillStep /\ Loading(last')) =>
          LET r == last'.reversed
              after == percCacheZones'[r + 1]
              reached == last'.resumePos + last'.processed * Dir(r)
          IN  /\ last'.processed >= 0
              /\ last'.processed <= last'.maxNumSamplesToProcess
              /\ IF r = 0 THEN reached <= lengthInSamples ELSE reached >= 0 - 1
              /\ (last'.processed > 0 /\ last'.path \in {"snap-done", "create-done", "snap-stopped",
                                                        "create-stopped"}) =>
                     after[last'.i + 1].endPos = reached
              /\ \A j \in 1 .. Len(after) :
                     IF r = 0 THEN after[j].endPos <= lengthInSamples ELSE after[j].endPos >= 0 - 1]_vars

\* A fill asked for more than maxNumSamplesToProcess samples has processed exactly that
\* many, and the zone it extended ends there.
C13_Witness ==
    /\ last.op = "fill" /\ last.path \in {"snap-done", "create-done"}
    /\ last.processed = last.maxNumSamplesToProcess
    /\ (last.endPosSamples - last.resumePos) * Dir(last.reversed) > last.maxNumSamplesToProcess
    /\ percCacheZones[last.reversed + 1][last.i + 1].endPos
           = last.resumePos + last.processed * Dir(last.reversed)


(***************************************************************************)
(* Sample::determinePitch: streaming the Sample into the analysis window   *)
(* and locating the onset.  The transform and the harmonic scoring are the *)
(* work of collaborators; what they report is an input of Analyse.         *)
(***************************************************************************)
kPitchDetectWindowSizeMagnitude == 4
kPitchDetectWindowSize == 2 ^ kPitchDetectWindowSizeMagnitude
kMaxLengthDoublings == 1
kMinAccurateFrequency == 65
kInsaneLengthDoublings == 10
DetectLength == 260
MaxDetectCalls == 2
NoCluster == 0 - 1
INT32_MIN == 0 - (2 ^ 30) - (2 ^ 30)
INT32_MAX == (2 ^ 30) + ((2 ^ 30) - 1)

\* the 16-bit sample files pitch detection is run on
DetectFiles == {"silence", "quiet", "medium", "loud", "loudLate", "negative", "fullScaleNegative",
                "fullScaleNegativeThenMedium", "lastOnly"}

\* the 16-bit value stored at a sample position of a file
pcm16(file, s) ==
    CASE file = "quiet" /\ s = 40 -> 16
      [] file = "medium" /\ s = 245 -> 128
      [] file = "loud" /\ s = 20 -> 4096
      [] file = "loudLate" /\ s = 255 -> 4096
      [] file = "negative" /\ s = 240 -> 0 - 4096
      [] file = "fullScaleNegative" /\ s = 30 -> 0 - 32768
      [] file = "fullScaleNegativeThenMedium" /\ s = 30 -> 0 - 32768
      [] file = "fullScaleNegativeThenMedium" /\ s = 60 -> 128
      [] file = "lastOnly" /\ s = DetectLength - 1 -> 4096
      [] OTHER -> 0

\* the 32-bit word read at a byte offset, masked to the sample's bytes (bitMask): the 16-bit sample sits in the
\* upper half
individualSampleValue(file, currentOffset) ==
    pcm16(file, (currentOffset - audioDataStartPosBytes) \div bytesPerSample) * 65536

\* what the build yields for -x when x is the most negative 32-bit value (signed overflow)
NegationOutcomes == {"wraps", "saturates"}

negate(x, outcome) ==
    IF x = INT32_MIN THEN (IF outcome = "wraps" THEN INT32_MIN ELSE INT32_MAX) ELSE 0 - x

absoluteValueOf(x, outcome) == IF x < 0 THEN negate(x, outcome) ELSE x

\* the while loop that raises lengthDoublings until the allowed maximum frequency is accurate enough; "insane"
\* when the count reaches 10
RECURSIVE doublingsForMaxFreq(_, _)
doublingsForMaxFreq(lengthDoublings, maxFreqHere) ==
    IF maxFreqHere >= kMinAccurateFrequency THEN [insane |-> FALSE, lengthDoublings |-> lengthDoublings]
    ELSE IF lengthDoublings + 1 >= kInsaneLengthDoublings THEN [insane |-> TRUE, lengthDoublings |-> lengthDoublings + 1]
    ELSE doublingsForMaxFreq(lengthDoublings + 1, maxFreqHere * 2)

NoReasons == [c \in 0 .. (numSourceClusters(DetectLength) - 1) |-> 0]

\* SampleCluster::getCluster, when it succeeds, hands the cluster over with a reason added
addReason(reasons, c) == [reasons EXCEPT ![c] = @ + 1]

removeReasonFromCluster(reasons, c) == [reasons EXCEPT ![c] = @ - 1]

\* the mutant of the failed load of the next cluster: the current cluster keeps its reason
keepReason(reasons, c) == reasons

releaseOnFailedNext(reasons, c) == removeReasonFromCluster(reasons, c)

\* delugeDealloc(fftInput), lines 1334 and 1673: one more release of the scratch buffer
delugeDealloc(d) == [d EXCEPT !.deallocs = @ + 1]

\* the return of determinePitch: what it returns, by which path
Returned(d, ret, path) == [d EXCEPT !.pc = "returned", !.ret = ret, !.path = path]

\* the head of the while loop (continueWhileLoop): with no next cluster held and one more cluster of audio
\* after the current one, the next cluster is loaded; loadOK is whether that load succeeds
needsNextCluster(d) ==
    d.nextCluster = NoCluster /\ d.currentClusterIndex + 1 < getFirstClusterIndexWithNoAudioData(DetectLength)

loadNextCluster(d, loadOK) ==
    IF ~needsNextCluster(d) THEN [d EXCEPT !.pc = "read", !.i = 0]
    ELSE IF ~loadOK
    THEN Returned(delugeDealloc([d EXCEPT !.reasons = releaseOnFailedNext(d.reasons, d.cluster),
                                           !.loads = @ + 1]),
                  0, "failed to load next")
    ELSE [d EXCEPT !.pc = "read", !.i = 0, !.loads = @ + 1,
                   !.nextCluster = d.currentClusterIndex + 1,
                   !.reasons = addReason(d.reasons, d.currentClusterIndex + 1)]

\* onsetOffset without the shift to the left of lines 1414-1417.
onsetOffsetUnclamped(currentOffset, sampleRate, lengthDoublings) ==
    Max(currentOffset + Shr(sampleRate, 2) * numChannels * byteDepth, currentOffset)

\* the onset found at currentOffset: the window starts a quarter of a second later, is shifted left to end
\* inside the file, and never starts before currentOffset
onsetOffset(currentOffset, sampleRate, lengthDoublings) ==
    Max(Min(currentOffset + Shr(sampleRate, 2) * numChannels * byteDepth,
            audioDataStartPosBytes + audioDataLengthBytes(DetectLength)
                - (kPitchDetectWindowSize * (2 ^ lengthDoublings)) * numChannels * byteDepth),
        currentOffset)

\* the tail of one pass of the for loop, after the onset test: still before the window's start, more samples
\* to average into this window value, or the value is written
afterOnsetTest(d) ==
    IF d.currentOffset < d.beginningOffsetForPitchDetection THEN [d EXCEPT !.pc = "loop"]
    ELSE IF d.i + 1 < 2 ^ d.lengthDoublingsNow THEN [d EXCEPT !.i = @ + 1]
    ELSE IF d.writeIndex + 1 >= kPitchDetectWindowSize
         THEN [d EXCEPT !.writeIndex = @ + 1, !.pc = "doneReading"]
         ELSE [d EXCEPT !.writeIndex = @ + 1, !.pc = "loop"]

\* the rudimentary start detection on the sample just read
onsetTest(d, value) ==
    IF d.beginningOffsetForPitchDetectionFound THEN afterOnsetTest(d)
    ELSE LET absoluteValue == absoluteValueOf(value, d.negation)
             biggest == IF absoluteValue > d.biggestValueFound THEN absoluteValue ELSE d.biggestValueFound
         IN  IF absoluteValue < d.startValueThreshold
             THEN [d EXCEPT !.biggestValueFound = biggest, !.pc = "loop"]
             ELSE afterOnsetTest([d EXCEPT !.biggestValueFound = biggest,
                                           !.beginningOffsetForPitchDetectionFound = TRUE,
                                           !.beginningOffsetForPitchDetection =
                                               onsetOffset(d.currentOffset, d.sampleRate, d.lengthDoublings)])

\* passing the end of the current cluster: its reason is removed and the next cluster becomes the current one
crossCluster(d) ==
    LET newClusterIndex == Shr(d.currentOffset, clusterSizeMagnitude)
    IN  IF newClusterIndex = d.currentClusterIndex THEN d
        ELSE [d EXCEPT !.currentClusterIndex = newClusterIndex,
                       !.reasons = removeReasonFromCluster(d.reasons, d.cluster),
                       !.cluster = d.nextCluster,
                       !.nextCluster = NoCluster,
                       !.crossings = @ + 1]

\* one pass of the for loop: a sample is read and the offset advances; at the end of the audio the reading is
\* done before the sample is tested
readSample(d) ==
    LET value == individualSampleValue(d.file, d.currentOffset)
        d1 == [d EXCEPT !.currentOffset = @ + byteDepth]
    IN  IF d1.currentOffset >= audioDataLengthBytes(DetectLength) + audioDataStartPosBytes
        THEN [d1 EXCEPT !.pc = "doneReading"]
        ELSE onsetTest(crossCluster(d1), value)

SampleRates == {44, 88200}
MaxFreqs == {0, 40, 1000}
FailingLoads == {0, 1, 2, 3, 4}

\* the Sample's own fields, which a call of determinePitch finds as the last call left them
SampleFieldsOf(d) ==
    [file |-> d.file, sampleRate |-> d.sampleRate, negation |-> d.negation, calls |-> d.calls,
     beginningOffsetForPitchDetection |-> d.beginningOffsetForPitchDetection,
     beginningOffsetForPitchDetectionFound |-> d.beginningOffsetForPitchDetectionFound]

\* determinePitch up to the label startAgain
enterDeterminePitch(f, maxFreqHz, allocOK, failAt) ==
    LET defaultLengthDoublings == IF f.sampleRate >= 88200 THEN 1 ELSE 0
        dbl == doublingsForMaxFreq(defaultLengthDoublings, maxFreqHz)
        d == [pc |-> "startAgain", file |-> f.file, sampleRate |-> f.sampleRate, negation |-> f.negation,
              calls |-> f.calls + 1,
              beginningOffsetForPitchDetection |-> f.beginningOffsetForPitchDetection,
              beginningOffsetForPitchDetectionFound |-> f.beginningOffsetForPitchDetectionFound,
              reasons |-> NoReasons, loads |-> 0, failAt |-> failAt,
              cluster |-> NoCluster, nextCluster |-> NoCluster, currentClusterIndex |-> 0,
              currentOffset |-> 0, writeIndex |-> 0, i |-> 0, biggestValueFound |-> 0,
              lengthDoublings |-> dbl.lengthDoublings, defaultLengthDoublings |-> defaultLengthDoublings,
              lengthDoublingsNow |-> 0, doingSecondPassWithReducedThreshold |-> FALSE,
              startValueThreshold |-> 2 ^ 27, ret |-> 0, path |-> "", passes |-> 0, reducedPasses |-> 0,
              crossings |-> 0, fftInput |-> allocOK, deallocs |-> 0]
    IN  IF ~allocOK THEN Returned(d, 0, "no memory")
        ELSE IF dbl.insane THEN Returned(d, 0, "insane doublings")
        ELSE IF d.beginningOffsetForPitchDetection = 0
             THEN [d EXCEPT !.beginningOffsetForPitchDetection = audioDataStartPosBytes]
             ELSE d

\* from startAgain to the head of the while loop: the first cluster is loaded
startAgain(d, loadOK) ==
    LET currentOffset == d.beginningOffsetForPitchDetection
        currentClusterIndex == Shr(currentOffset, clusterSizeMagnitude)
    IN  IF ~loadOK THEN Returned(delugeDealloc([d EXCEPT !.loads = @ + 1]), 0, "failed to load first")
        ELSE [d EXCEPT !.pc = "loop", !.loads = @ + 1, !.passes = @ + 1,
                       !.currentOffset = currentOffset, !.currentClusterIndex = currentClusterIndex,
                       !.writeIndex = 0, !.cluster = currentClusterIndex, !.nextCluster = NoCluster,
                       !.reasons = addReason(d.reasons, currentClusterIndex),
                       !.biggestValueFound = 0, !.i = 0,
                       !.lengthDoublingsNow = IF numChannels = 2 THEN d.lengthDoublings + 1
                                              ELSE d.lengthDoublings]

\* doneReading: the reasons are removed; with no onset found, either the one pass with the reduced threshold
\* follows or the call gives up
doneReading(d) ==
    LET r1 == removeReasonFromCluster(d.reasons, d.cluster)
        r2 == IF d.nextCluster # NoCluster THEN removeReasonFromCluster(r1, d.nextCluster) ELSE r1
        d1 == [d EXCEPT !.reasons = r2]
    IN  IF ~d.beginningOffsetForPitchDetectionFound
        THEN IF ~d.doingSecondPassWithReducedThreshold /\ d.biggestValueFound >= 2 ^ 22
             THEN [d1 EXCEPT !.doingSecondPassWithReducedThreshold = TRUE,
                             !.startValueThreshold = Shr(d.biggestValueFound, 4),
                             !.reducedPasses = @ + 1,
                             !.pc = "startAgain"]
             ELSE Returned(delugeDealloc(d1), 0, "no sound found")
        ELSE [d1 EXCEPT !.pc = "analyse"]

\* what the transform and the scoring of the candidates come to
Analyses == {"no peaks", "too low", "accurate"}

\* analyse with one low-frequency restart more than the limit of line 1656 allows.
analyseOneMoreDoubling(d, outcome) ==
    IF outcome = "no peaks" THEN Returned(delugeDealloc(d), 0, "no peaks found")
    ELSE IF outcome = "too low" /\ d.lengthDoublings <= d.defaultLengthDoublings + kMaxLengthDoublings
    THEN [d EXCEPT !.lengthDoublings = @ + 1, !.pc = "startAgain"]
    ELSE Returned(delugeDealloc(d), 1, "freq")

analyse(d, outcome) ==
    IF outcome = "no peaks" THEN Returned(delugeDealloc(d), 0, "no peaks found")
    ELSE IF outcome = "too low" /\ d.lengthDoublings < d.defaultLengthDoublings + kMaxLengthDoublings
    THEN [d EXCEPT !.lengthDoublings = @ + 1, !.pc = "startAgain"]
    ELSE Returned(delugeDealloc(d), 1, "freq")

InitDetect ==
    /\ percCacheZones = <<<<>>, <<>>>>
    /\ percCacheClusters = <<[allocated |-> FALSE, slots |-> {}], [allocated |-> FALSE, slots |-> {}]>>
    /\ percCacheMemory = <<FALSE, FALSE>>
    /\ percCacheData = <<<<>>, <<>>>>
    /\ lengthInSamples = DetectLength
    /\ audio = NoAudio
    /\ divZero = 0
    /\ mainDirection = 1
    /\ caches = <<>>
    /\ heap = {}
    /\ lock = FALSE
    /\ last = [op |-> "init"]
    /\ steps = 0
    /\ \E file \in DetectFiles, sampleRate \in SampleRates, negation \in NegationOutcomes :
          detect = [pc |-> "idle", file |-> file, sampleRate |-> sampleRate, negation |-> negation,
                    calls |-> DetectIdle.calls,
                    beginningOffsetForPitchDetection |-> DetectIdle.beginningOffsetForPitchDetection,
                    beginningOffsetForPitchDetectionFound |-> DetectIdle.beginningOffsetForPitchDetectionFound]

DetectUnchanged ==
    UNCHANGED <<percCacheZones, percCacheClusters, percCacheMemory, percCacheData, lengthInSamples, audio,
                divZero, mainDirection, caches, heap, lock, last, steps>>

\* a call of determinePitch begins
DetectCall ==
    /\ detect.pc \in {"idle", "returned"}
    /\ detect.calls < MaxDetectCalls
    /\ \E maxFreqHz \in MaxFreqs, allocOK \in BOOLEAN, failAt \in FailingLoads :
          detect' = enterDeterminePitch(SampleFieldsOf(detect), maxFreqHz, allocOK, failAt)
    /\ DetectUnchanged

DetectStartAgain ==
    /\ detect.pc = "startAgain"
    /\ detect' = startAgain(detect, detect.loads + 1 # detect.failAt)
    /\ DetectUnchanged

\* one turn of the while loop up to the end of the first pass of its for loop
DetectLoop ==
    /\ detect.pc = "loop"
    /\ detect' = (LET d == loadNextCluster(detect, detect.loads + 1 # detect.failAt)
                  IN  IF d.pc = "read" THEN readSample(d) ELSE d)
    /\ DetectUnchanged

\* a further pass of the for loop, averaging another sample into the same window value
DetectRead ==
    /\ detect.pc = "read"
    /\ detect' = readSample(detect)
    /\ DetectUnchanged

DetectDoneReading ==
    /\ detect.pc = "doneReading"
    /\ detect' = doneReading(detect)
    /\ DetectUnchanged

DetectAnalyse ==
    /\ detect.pc = "analyse"
    /\ \E outcome \in Analyses : detect' = analyse(detect, outcome)
    /\ DetectUnchanged

NextDetect ==
    \/ DetectCall
    \/ DetectStartAgain
    \/ DetectLoop
    \/ DetectRead
    \/ DetectDoneReading
    \/ DetectAnalyse

SpecDetect == InitDetect /\ [][NextDetect]_vars


(***************************************************************************)
(* C14: pin balance in determinePitch.  The reasons determinePitch has     *)
(* added and not yet removed are never negative for any cluster; at every  *)
(* restart (startAgain) and on every return they are zero for every        *)
(* cluster, so the call leaves every cluster's count of reasons as it      *)
(* found it; and while samples are read, the cluster read from is one the  *)
(* call holds a reason on.                                                 *)
(***************************************************************************)
C14_PinBalance ==
    detect.pc # "idle" =>
        /\ \A c \in DOMAIN detect.reasons : detect.reasons[c] >= 0
        /\ detect.pc \in {"startAgain", "analyse", "returned"} => detect.reasons = NoReasons
        /\ detect.pc \in {"loop", "read", "doneReading"} =>
              /\ detect.cluster \in DOMAIN detect.reasons
              /\ detect.reasons[detect.cluster] >= 1
              /\ detect.nextCluster # NoCluster => detect.reasons[detect.nextCluster] >= 1

\* a call that restarted, pinned two clusters in its second pass and returned because the next cluster would
\* not load
C14_Witness ==
    /\ detect.pc = "returned"
    /\ detect.path = "failed to load next"
    /\ detect.passes >= 2
    /\ detect.loads = 4


(***************************************************************************)
(* C17: the onset retry of determinePitch.  Sample values are compared in  *)
(* units of the 16-bit samples: a 32-bit value v read from the file is     *)
(* pcm16 * 2^16, so |v| >= 2^27 is |pcm16| >= 2^11, |v| >= 2^22 is         *)
(* |pcm16| >= 2^6, and peak >> 4 is |pcm16| * 2^12.                        *)
(***************************************************************************)
Magnitude16(file, s) == IF pcm16(file, s) < 0 THEN 0 - pcm16(file, s) ELSE pcm16(file, s)

\* the samples a pass from the start of the audio puts to the onset test: all but the last, after which the
\* reading is done
TestedSamples == 0 .. (DetectLength - 2)

PeakSeen(file) ==
    CHOOSE m \in {Magnitude16(file, s) : s \in TestedSamples} :
        \A s \in TestedSamples : Magnitude16(file, s) <= m

SampleAt(currentOffset) == (currentOffset - audioDataStartPosBytes) \div bytesPerSample

\* C17: (a) the pass with the fixed threshold 2^27 finds as onset the first sample whose absolute value
\* reaches 2^27; (b) when the data ends with no onset found and the largest absolute value seen is >= 2^22,
\* one further pass follows with threshold = that peak >> 4, and when that pass has read its data it has
\* found an onset; (c) the reduced-threshold pass is run at most once per call, and with a peak below 2^22
\* determinePitch returns 0.
C17_OnsetRetry ==
    [][/\ (/\ detect.pc \in {"loop", "read"}
           /\ detect'.pc # "returned"
           /\ ~detect.doingSecondPassWithReducedThreshold
           /\ ~detect.beginningOffsetForPitchDetectionFound
           /\ detect'.beginningOffsetForPitchDetectionFound)
          => /\ Magnitude16(detect.file, SampleAt(detect'.currentOffset) - 1) >= 2 ^ 11
             /\ \A s \in 0 .. (SampleAt(detect'.currentOffset) - 2) : Magnitude16(detect.file, s) < 2 ^ 11
       /\ (/\ detect.pc = "doneReading"
           /\ ~detect.doingSecondPassWithReducedThreshold
           /\ ~detect.beginningOffsetForPitchDetectionFound)
          => IF PeakSeen(detect.file) >= 2 ^ 6
             THEN /\ detect'.pc = "startAgain"
                  /\ detect'.doingSecondPassWithReducedThreshold
                  /\ detect'.startValueThreshold = PeakSeen(detect.file) * (2 ^ 12)
                  /\ detect'.reducedPasses = 1
             ELSE /\ detect'.pc = "returned"
                  /\ detect'.ret = 0
       /\ (detect.pc = "doneReading" /\ detect.doingSecondPassWithReducedThreshold)
          => /\ detect.beginningOffsetForPitchDetectionFound
             /\ detect'.reducedPasses = 1
       /\ (detect.pc # "idle" /\ detect'.pc # "idle") => detect'.reducedPasses <= 1]_vars


(***************************************************************************)
(* The zone guard and the allocations made inside it.  An allocation may   *)
(* make the allocator evict (steal) an unreferenced cluster to make room;  *)
(* the owner of an evicted percussive-cache cluster is told synchronously, *)
(* inside the allocation (percCacheClusterStolen).  An allocation names    *)
(* what must not be stolen from (thingNotToStealFrom); the table of a      *)
(* direction's storage is allocated naming nothing, the zone insert and    *)
(* the storage slot name this Sample.                                      *)
(***************************************************************************)
AllocationSites == {"table", "insert", "slot"}

thingNotToStealFrom(site) == IF site = "table" THEN "NULL" ELSE "this"

\* the percussive-cache clusters of this Sample the allocator holds: <<reversed, clusterIndex>>
OwnPercCacheClusters == ({0} \X percCacheClusters[1].slots) \cup ({1} \X percCacheClusters[2].slots)

\* Cluster::mayBeStolen for a percussive-cache cluster of this Sample
mayBeStolen(exclusion) == exclusion # "this"

\* the allocation at a site is reached by fillPercCache(startPosSamples, ..) in direction reversed, with the
\* guard entered at line 293 and not yet left
allocationReached(site, startPosSamples, reversed) ==
    /\ ~beyondWaveform(startPosSamples, reversed, lengthInSamples)
    /\ site = "table" => storageMissing(StateOf(reversed), lengthInSamples) /\ percCacheDoneWithClusters(lengthInSamples)
    /\ site # "table" => ~storageMissing(StateOf(reversed), lengthInSamples)

\* a fill whose allocation inside the guard evicts a percussive-cache cluster of this Sample: the guard is
\* entered again by percCacheClusterStolen while it is held, which is the fatal halt i024
FillAllocationEvicts ==
    /\ steps < MaxSteps
    /\ ~lock
    /\ \E playDirection \in {1, -1} :
       \E req \in RequestsFor(playDirection), site \in AllocationSites, victim \in OwnPercCacheClusters :
          LET reversed == Rev(playDirection)
              startPosSamples == IF reversed = 0 THEN req[1] ELSE lengthInSamples - 1 - req[1]
          IN  /\ allocationReached(site, startPosSamples, reversed)
              /\ mayBeStolen(thingNotToStealFrom(site))
              /\ last' = [op |-> "i024", reversed |-> reversed, startPosSamples |-> startPosSamples,
                          site |-> site, victim |-> victim]
    /\ lock' = TRUE
    /\ steps' = steps + 1
    /\ UNCHANGED <<percCacheZones, percCacheClusters, percCacheMemory, percCacheData, lengthInSamples, audio,
                   divZero, mainDirection, caches, heap, detect>>

NextGuard == Fill \/ Evict \/ FillAllocationEvicts

SpecGuard == Init /\ [][NextGuard]_vars

\* C15: the guard is never entered while it is held: no allocation made between guard entry and guard exit
\* of a fill evicts a percussive-cache cluster of the same Sample, so the fatal halt i024 is never reached.
C15_NoReentrantZoneMutation == last.op # "i024"


(***************************************************************************)
(* Sample::investigateFundamentalPitch: the totals per prime and the test  *)
(* that discards a candidate.  What the walk over the harmonics finds is   *)
(* given as the strength of each harmonic examined (0: no peak found       *)
(* there, the harmonic is skipped) and the number h the walk stops at.     *)
(***************************************************************************)
primeNumbers == <<2, 3, 5, 7, 11, 13>>
kNumPrimes == 6
kPrimeThreshold == 6
kMaxHarmonic == 16

\* lines 1181-1194 for one harmonic h of strength strengthThisHarmonic: prime 2 is left out without doPrimeTest
addToPrimeTotals(primeTotals, h, strengthThisHarmonic, doPrimeTest) ==
    [p \in 1 .. kNumPrimes |->
        IF (p = 1 /\ ~doPrimeTest) \/ primeNumbers[p] > h \/ h % primeNumbers[p] # 0
        THEN primeTotals[p]
        ELSE primeTotals[p] + strengthThisHarmonic]

\* the walk from harmonic h to the last one: total and primeTotals
RECURSIVE examineHarmonics(_, _, _, _, _)
examineHarmonics(acc, h, hLast, strengths, doPrimeTest) ==
    IF h > hLast THEN acc
    ELSE IF h > 1 /\ strengths[h] = 0 THEN examineHarmonics(acc, h + 1, hLast, strengths, doPrimeTest)
    ELSE examineHarmonics([total |-> acc.total + strengths[h],
                           primeTotals |-> addToPrimeTotals(acc.primeTotals, h, strengths[h], doPrimeTest)],
                          h + 1, hLast, strengths, doPrimeTest)

\* lines 1224-1239: the first prime, not above h, whose total dominates; 0 when there is none.  The test is
\* made whatever doPrimeTest is ("true || doPrimeTest")
rejectingPrime(total, primeTotals, h, doPrimeTest) ==
    LET failing == {p \in 1 .. kNumPrimes :
                       /\ primeNumbers[p] <= h
                       /\ primeTotals[p] * (primeNumbers[p] - 1) >= (total - primeTotals[p]) * kPrimeThreshold}
    IN  IF failing = {} THEN 0 ELSE primeNumbers[CHOOSE p \in failing : \A q \in failing : p <= q]

\* the strength returned: 0 for a discarded candidate; the factor powf(fundamentalIndexToReturn, 0.25) of
\* line 1252 is left out
investigateFundamentalPitch(strengths, hLast, doPrimeTest) ==
    LET acc == examineHarmonics([total |-> 0, primeTotals |-> [p \in 1 .. kNumPrimes |-> 0]], 1, hLast,
                                strengths, doPrimeTest)
        rejectedBy == rejectingPrime(acc.total, acc.primeTotals, hLast, doPrimeTest)
    IN  [total |-> acc.total, primeTotals |-> acc.primeTotals, rejectedBy |-> rejectedBy,
         strength |-> IF rejectedBy # 0 THEN 0 ELSE acc.total]

\* the candidates: one harmonic of its own strength among harmonics of a common strength
DominantStrengths == {0, 5, 100}
OtherStrengths == {0, 1, 10}
LastHarmonics == {1, 2, 3, 5, 8, 13, 16}

StrengthsOf(dominant, strong, other) == [h \in 1 .. kMaxHarmonic |-> IF h = dominant THEN strong ELSE other]

InitPrime ==
    /\ percCacheZones = <<<<>>, <<>>>>
    /\ percCacheClusters = <<[allocated |-> FALSE, slots |-> {}], [allocated |-> FALSE, slots |-> {}]>>
    /\ percCacheMemory = <<FALSE, FALSE>>
    /\ percCacheData = <<<<>>, <<>>>>
    /\ lengthInSamples = DetectLength
    /\ audio = NoAudio
    /\ divZero = 0
    /\ mainDirection = 1
    /\ caches = <<>>
    /\ heap = {}
    /\ lock = FALSE
    /\ steps = 0
    /\ detect = DetectIdle
    /\ \E dominant \in 1 .. kMaxHarmonic, strong \in DominantStrengths, other \in OtherStrengths,
          hLast \in LastHarmonics, doPrimeTest \in BOOLEAN :
          last = [op |-> "candidate", strengths |-> StrengthsOf(dominant, strong, other), dominant |-> dominant,
                  hLast |-> hLast, doPrimeTest |-> doPrimeTest]

Investigate ==
    /\ last.op = "candidate"
    /\ last' = [op |-> "investigated", doPrimeTest |-> last.doPrimeTest, hLast |-> last.hLast,
                dominant |-> last.dominant,
                out |-> investigateFundamentalPitch(last.strengths, last.hLast, last.doPrimeTest)]
    /\ steps' = steps + 1
    /\ UNCHANGED <<percCacheZones, percCacheClusters, percCacheMemory, percCacheData, lengthInSamples, audio,
                   divZero, mainDirection, caches, heap, lock, detect>>

NextPrime == Investigate

SpecPrime == InitPrime /\ [][NextPrime]_vars

\* C16: a candidate with some strength is discarded by the prime-dominance test only when doPrimeTest
\* (enablePrimeRejection) is true; with doPrimeTest false no candidate is discarded because of a prime's share
\* of the total.
C16_PrimeRejectionConditional ==
    (last.op = "investigated" /\ last.out.total > 0 /\ last.out.rejectedBy # 0) => last.doPrimeTest


(***************************************************************************)
(* Sample::prepareToReadPercCache, lines 825-880.                          *)
(***************************************************************************)
\* the mutant of constrainToCluster: the pixel is left where it is
unconstrained(pixellatedPos, ourCluster) == pixellatedPos

\* lines 863-875: a pixel of an earlier storage cluster is moved to the first pixel of ourCluster, one of a
\* later cluster to its last pixel
constrainToCluster(pixellatedPos, ourCluster) ==
    LET itsCluster == Shr(pixellatedPos, clusterSizeMagnitude)
    IN  IF itsCluster < ourCluster THEN ourCluster * clusterSize
        ELSE IF itsCluster > ourCluster THEN (ourCluster + 1) * clusterSize - 1
        ELSE pixellatedPos

realPosOf(pixellatedPos) == pixellatedPos * kPercBufferReductionSize + Shr(kPercBufferReductionSize, 1)

prepareToReadPercCache(S, pixellatedPos, playDirection) ==
    LET reversed == Rev(playDirection)
        realPos == realPosOf(pixellatedPos)
        i == search(S.zones, realPos + 1 - reversed, IF reversed = 1 THEN GREATER_OR_EQUAL ELSE LESS)
        none == [ret |-> "NULL", i |-> i, earliestPixellatedPos |-> UNINIT, latestPixellatedPos |-> UNINIT]
    IN  IF i < 0 \/ i >= NumElements(S.zones) THEN none
        ELSE LET zone == At(S.zones, i)
                 earliest == Shr(zone.startPos + Shr(kPercBufferReductionSize, 1) * playDirection,
                                 kPercBufferReductionMagnitude)
                 latest == Shr(zone.endPos - Shr(kPercBufferReductionSize, 1) * playDirection,
                               kPercBufferReductionMagnitude)
                 ourCluster == Shr(pixellatedPos, clusterSizeMagnitude)
             IN  IF (zone.endPos - realPos) * playDirection <= 0 THEN none
                 ELSE IF S.mem
                 THEN [ret |-> "percCacheMemory", i |-> i, earliestPixellatedPos |-> earliest,
                       latestPixellatedPos |-> latest]
                 ELSE [ret |-> "percCacheClusters", i |-> i,
                       earliestPixellatedPos |-> constrainToCluster(earliest, ourCluster),
                       latestPixellatedPos |-> constrainToCluster(latest, ourCluster)]

\* the pixels the time stretcher asks for
ReadPixels == {0, 12, 268, 500, 511, 512, 520, 549, 550, 699, 737, 1000, 1237, 1249}

\* a read of the envelope; it changes nothing in the Sample, and it is the last call looked at
PrepareToRead ==
    /\ steps < MaxSteps
    /\ ~lock
    /\ \E playDirection \in {1, -1}, pixellatedPos \in ReadPixels :
          last' = [op |-> "read", reversed |-> Rev(playDirection), pixellatedPos |-> pixellatedPos,
                   out |-> prepareToReadPercCache(StateOf(Rev(playDirection)), pixellatedPos, playDirection)]
    /\ steps' = MaxSteps
    /\ UNCHANGED <<percCacheZones, percCacheClusters, percCacheMemory, percCacheData, lengthInSamples, audio,
                   divZero, mainDirection, caches, heap, lock, detect>>

NextRead == Fill \/ Evict \/ PrepareToRead

SpecRead == Init /\ [][NextRead]_vars

\* a zone covers a source position: the position lies in [startPos, endPos) in the direction of play
Covers(z, pos, reversed) ==
    IF reversed = 0 THEN z.startPos <= pos /\ pos < z.endPos
    ELSE z.endPos < pos /\ pos <= z.startPos

\* C18: prepareToReadPercCache returns storage only when some zone of the direction covers the source
\* position (pixellatedPos << kPercBufferReductionMagnitude) + kPercBufferReductionSize / 2; and when the
\* storage returned is cluster-based, the earliest and the latest valid pixel both lie inside the storage
\* cluster that contains pixellatedPos.
C18_ReadOnlyWhereCovered ==
    (last.op = "read" /\ last.out.ret # "NULL") =>
        /\ \E n \in 1 .. Len(percCacheZones[last.reversed + 1]) :
              Covers(percCacheZones[last.reversed + 1][n], realPosOf(last.pixellatedPos), last.reversed)
        /\ last.out.ret = "percCacheClusters" =>
              /\ Shr(last.out.earliestPixellatedPos, clusterSizeMagnitude)
                    = Shr(last.pixellatedPos, clusterSizeMagnitude)
              /\ Shr(last.out.latestPixellatedPos, clusterSizeMagnitude)
                    = Shr(last.pixellatedPos, clusterSizeMagnitude)

\* a read answered from cluster-based storage whose zone reaches into the next storage cluster
C18_Witness ==
    /\ last.op = "read"
    /\ last.out.ret = "percCacheClusters"
    /\ last.reversed = 0
    /\ last.out.latestPixellatedPos = (Shr(last.pixellatedPos, clusterSizeMagnitude) + 1) * clusterSize - 1
    /\ percCacheZones[1][last.out.i + 1].endPos > (Shr(last.pixellatedPos, clusterSizeMagnitude) + 1) * clusterSize * kPercBufferReductionSize


(***************************************************************************)
(* The render-cache store with deleteCache, lines 251-267.                 *)
(***************************************************************************)
\* what the body of deleteCache did before it was commented out: the element and its SampleCache go
deleteCacheRemoving(C, H, cache) ==
    [caches |-> SelectSeq(C, LAMBDA element : element.cache # cache),
     heap |-> {blk \in H : blk.id # cache}]

\* lines 251-267: the body is a comment; nothing is done
deleteCache(C, H, cache) == [caches |-> C, heap |-> H]

DeleteCache ==
    /\ steps < MaxCalls
    /\ \E j \in 1 .. Len(caches) :
          \E out \in {deleteCache(caches, heap, caches[j].cache)} :
              /\ caches' = out.caches
              /\ heap' = out.heap
              /\ last' = [op |-> "deleteCache", cache |-> caches[j].cache]
    /\ steps' = steps + 1
    /\ UNCHANGED <<percCacheZones, percCacheClusters, percCacheMemory, percCacheData, lengthInSamples,
                   audio, divZero, mainDirection, lock, detect>>

NextStore == GetOrCreateCache \/ DeleteCache

SpecStore == InitCache /\ [][NextStore]_vars

\* C19: render-cache entries are permanent while the Sample lives: every step (a getOrCreateCache with any
\* outcome, a deleteCache) leaves every element of the index in the index with the same key and the same
\* SampleCache, and leaves that SampleCache's block in the heap with the same size; so the set of keys only
\* grows and a key, once mapped, maps to the same entry ever after.
C19_EntriesPermanent ==
    [][\A j \in 1 .. Len(caches) :
          /\ \E k \in 1 .. Len(caches') : caches'[k] = caches[j]
          /\ \A blk \in heap : blk.id = caches[j].cache => blk \in heap']_vars

\* deleteCache was called on an entry of a store of two entries, and both are there
C19_Witness ==
    /\ last.op = "deleteCache"
    /\ Len(caches) = 2
    /\ \E blk \in heap : blk.id = last.cache


(***************************************************************************)
(* C20: the size of a new render cache.  The quotient                      *)
(* ((length - skip) << 24) / combinedIncrement is worked out here from the *)
(* fraction in lowest terms, for quotients below 2^26.                     *)
(***************************************************************************)
RECURSIVE GCD(_, _)
GCD(a, b) == IF b = 0 THEN a ELSE GCD(b, a % b)

SkipOf(l) == IF ~l.reversed THEN l.sampleHolder.startPos ELSE lengthInSamples - l.sampleHolder.endPos

Numerator(l) ==
    (lengthInSamples - SkipOf(l))
        * (kUnity \div GCD(kUnity, combinedIncrementOf(l.phaseIncrement, l.timeStretchRatio)))

Denominator(l) ==
    combinedIncrementOf(l.phaseIncrement, l.timeStretchRatio)
        \div GCD(kUnity, combinedIncrementOf(l.phaseIncrement, l.timeStretchRatio))

FloorQuotient(l) == Numerator(l) \div Denominator(l)

CeilQuotient(l) == FloorQuotient(l) + (IF Numerator(l) % Denominator(l) = 0 THEN 0 ELSE 1)

Padding(l) ==
    (IF l.phaseIncrement # kUnity THEN kInterpolationMaxNumSamples \div 2 ELSE 0)
        + (IF l.timeStretchRatio # kUnity THEN kRingOutTimeStretch ELSE 0)

\* a call that worked out the size of a new cache, with a divisor and a quotient the comparison can be made for
Sized(l) ==
    /\ l.op = "getOrCreateCache"
    /\ l.lengthInBytesCached >= 0
    /\ combinedIncrementOf(l.phaseIncrement, l.timeStretchRatio) # 0
    /\ (lengthInSamples - SkipOf(l)) \div combinedIncrementOf(l.phaseIncrement, l.timeStretchRatio) < 4

\* C20 as stated: on a creating miss the entry is sized from
\* ceil(((length - skip) << 24) / combinedIncrement) + 1 samples, plus half the interpolation window when
\* phaseIncrement is not 2^24 and plus 16384 when timeStretchRatio is not 2^24, times the cache byte depth
\* and the channel count.
C20_SizingAsStated ==
    Sized(last) =>
        last.lengthInBytesCached = (CeilQuotient(last) + 1 + Padding(last)) * kCacheByteDepth * numChannels

\* C20 amended: the quotient is floored, not rounded up: the entry is sized from
\* floor(((length - skip) << 24) / combinedIncrement) + 1 samples, plus the same padding, times the cache
\* byte depth and the channel count.
C20_Sizing ==
    Sized(last) =>
        last.lengthInBytesCached = (FloorQuotient(last) + 1 + Padding(last)) * kCacheByteDepth * numChannels

\* an entry was created for a pitch of one and a half, where the quotient has a remainder
C20_Witness ==
    /\ Sized(last)
    /\ last.path = "created"
    /\ last.phaseIncrement = kUnity + kUnity \div 2
    /\ Numerator(last) % Denominator(last) # 0


(***************************************************************************)
(* Joining the next zone, lines 486-504 and 668-688.                       *)
(***************************************************************************)
\* A fill whose loop of lines 513-666 ran to the end.
Completed(l) == l.op = "fill" /\ l.path \in {"snap-done", "create-done", "snap-joined", "create-joined"}

\* The zones of the direction when execution is at doLoading: those at entry, with
\* the new zone of lines 450-459 when one was created.
ZonesAtLoading(l, zs) ==
    IF l.path \in {"create-done", "create-joined", "create-stopped", "create-nothing"}
    THEN insertAtIndex(zs, l.i, SamplePercCacheZone(l.startPosSamples))
    ELSE zs

\* Where the loading of the call ended.
ExtensionEnd(l) == l.resumePos + l.processed * Dir(l.reversed)

\* The completed extension ends at or past the start of the zone after it.
ReachesNext(l, zs) ==
    LET iNext == l.i + Dir(l.reversed)
    IN  /\ Completed(l)
        /\ iNext >= 0 /\ iNext < NumElements(ZonesAtLoading(l, zs))
        /\ (ExtensionEnd(l) - At(ZonesAtLoading(l, zs), iNext).startPos) * Dir(l.reversed) >= 0

Intersects(z, clusterIndex, reversed) ==
    /\ DirectedLength(z, reversed) > 0
    /\ (z.endPos - earlierBorder(clusterIndex, reversed)) * Dir(reversed) > 0
    /\ (laterBorder(clusterIndex, reversed) - z.startPos) * Dir(reversed) > 0

StartsBefore(z, clusterIndex, reversed) ==
    (z.startPos - earlierBorder(clusterIndex, reversed)) * Dir(reversed) < 0

EndsAfter(z, clusterIndex, reversed) ==
    (z.endPos - laterBorder(clusterIndex, reversed)) * Dir(reversed) > 0

Straddles(z, clusterIndex, reversed) ==
    Intersects(z, clusterIndex, reversed) /\ StartsBefore(z, clusterIndex, reversed)
        /\ EndsAfter(z, clusterIndex, reversed)

\* What the eviction is to leave of a zone that does not straddle the range: nothing,
\* or the zone's range and count.
Trimmed(z, clusterIndex, reversed) ==
    LET later == laterBorder(clusterIndex, reversed)
    IN  IF ~Intersects(z, clusterIndex, reversed) THEN <<RangeOf(z)>>
        ELSE IF StartsBefore(z, clusterIndex, reversed)
        THEN <<RangeOf([z EXCEPT !.endPos = earlierBorder(clusterIndex, reversed)])>>
        ELSE IF EndsAfter(z, clusterIndex, reversed)
        THEN <<RangeOf([z EXCEPT !.startPos = later,
                                 !.samplesAtStartWhichShouldBeReplaced =
                                     Max(0, @ - (later - z.startPos) * Dir(reversed))])>>
        ELSE <<>>

RECURSIVE TrimmedAll(_, _, _)
TrimmedAll(zs, clusterIndex, reversed) ==
    IF zs = <<>> THEN <<>>
    ELSE Trimmed(Head(zs), clusterIndex, reversed) \o TrimmedAll(Tail(zs), clusterIndex, reversed)

Ranges(zs) == [j \in 1 .. Len(zs) |-> RangeOf(zs[j])]

\* The zones of positive length, in array order.
RECURSIVE Proper(_, _)
Proper(zs, reversed) ==
    IF zs = <<>> THEN <<>>
    ELSE (IF DirectedLength(Head(zs), reversed) > 0 THEN <<Head(zs)>> ELSE <<>>)
             \o Proper(Tail(zs), reversed)

\* C23: an eviction cuts the endPos of a zone that overlaps only the earlier edge of
\* the evicted range back to the earlier border, moves the startPos of a zone that
\* overlaps only the later edge to the later border and reduces its
\* samplesAtStartWhichShouldBeReplaced by the trimmed amount (never below 0), deletes
\* every zone lying entirely inside the range, and leaves the zones that do not
\* intersect the range, and all zones of the other direction, unchanged.
C23_EvictionTrims ==
    [][EvictStep =>
          LET r == last'.reversed
              c == last'.clusterIndex
              zs == percCacheZones[r + 1]
              after == percCacheZones'[r + 1]
          IN  /\ percCacheZones'[2 - r] = percCacheZones[2 - r]
              /\ (\A j \in 1 .. Len(zs) : ~Straddles(zs[j], c, r)) =>
                     Ranges(Proper(after, r)) = TrimmedAll(Proper(zs, r), c, r)
              /\ \A j \in 1 .. Len(zs) :
                     (DirectedLength(zs[j], r) > 0 /\ ~Intersects(zs[j], c, r)) => \E m \in 1 .. Len(after) : after[m] = zs[j]]_vars

\* The zones at the eviction were ordered and disjoint and all of positive length.
WellFormed(zs, reversed) ==
    /\ \A j \in 1 .. Len(zs) : DirectedLength(zs[j], reversed) > 0
    /\ \A j \in 1 .. Len(zs) - 1 :
           IF reversed = 0 THEN zs[j].endPos <= zs[j + 1].startPos
           ELSE zs[j + 1].endPos >= zs[j].startPos

\* The same holds of every eviction that finds the zones well formed.
EvictionTrimsWellFormed ==
    [][(EvictStep /\ WellFormed(percCacheZones[last'.reversed + 1], last'.reversed)) =>
          LET r == last'.reversed
              c == last'.clusterIndex
              zs == percCacheZones[r + 1]
              after == percCacheZones'[r + 1]
          IN  /\ percCacheZones'[2 - r] = percCacheZones[2 - r]
              /\ (\A j \in 1 .. Len(zs) : ~Straddles(zs[j], c, r)) =>
                     Ranges(Proper(after, r)) = TrimmedAll(Proper(zs, r), c, r)
              /\ \A j \in 1 .. Len(zs) :
                     (DirectedLength(zs[j], r) > 0 /\ ~Intersects(zs[j], c, r)) => \E m \in 1 .. Len(after) : after[m] = zs[j]]_vars


\* An eviction whose insertAtIndex of line 941 failed.
SplitInsertFailed(l) == l.op = "evict" /\ l.path = "splitInsertFail"

\* C24: if the zone insert needed to split a straddling zone fails inside an eviction,
\* the call still returns with the guard released, the evicted slot cleared, and no
\* zone covering any position of the evicted range: of the straddling zone only the
\* part after the range survives.
C24_FailedSplit ==
    [][(EvictStep /\ SplitInsertFailed(last')) =>
          LET r == last'.reversed
              c == last'.clusterIndex
              zs == percCacheZones[r + 1]
              after == percCacheZones'[r + 1]
          IN  /\ lock' = FALSE
              /\ c \notin percCacheClusters'[r + 1].slots
              /\ \A m \in 1 .. Len(after) : ~Intersects(after[m], c, r)
              /\ Len(after) = Len(zs)
              /\ \E j \in 1 .. Len(zs) :
                    /\ Straddles(zs[j], c, r)
                    /\ RangeOf(after[j]) = [startPos |-> laterBorder(c, r), endPos |-> zs[j].endPos,
                                            samplesAtStartWhichShouldBeReplaced |-> 0]
                    /\ \A m \in 1 .. Len(zs) : m # j => after[m] = zs[m]]_vars

\* The same holds of every eviction that finds the zones well formed.
FailedSplitWellFormed ==
    [][(EvictStep /\ SplitInsertFailed(last')
          /\ WellFormed(percCacheZones[last'.reversed + 1], last'.reversed)) =>
          LET r == last'.reversed
              c == last'.clusterIndex
              zs == percCacheZones[r + 1]
              after == percCacheZones'[r + 1]
          IN  /\ lock' = FALSE
              /\ c \notin percCacheClusters'[r + 1].slots
              /\ \A m \in 1 .. Len(after) : ~Intersects(after[m], c, r)
              /\ Len(after) = Len(zs)
              /\ \E j \in 1 .. Len(zs) :
                    /\ Straddles(zs[j], c, r)
                    /\ RangeOf(after[j]) = [startPos |-> laterBorder(c, r), endPos |-> zs[j].endPos,
                                            samplesAtStartWhichShouldBeReplaced |-> 0]
                    /\ \A m \in 1 .. Len(zs) : m # j => after[m] = zs[m]]_vars


\* C25: after any sequence of fill and eviction calls, the provisional prefix is a
\* prefix of its zone: every zone satisfies
\* 0 <= samplesAtStartWhichShouldBeReplaced <= (endPos - startPos) * playDirection.
C25_PrefixWithinZone ==
    \A reversed \in {0, 1} :
        \A j \in 1 .. Len(Zones(reversed)) :
            LET z == Zones(reversed)[j]
            IN  /\ 0 <= z.samplesAtStartWhichShouldBeReplaced
                /\ z.samplesAtStartWhichShouldBeReplaced <= DirectedLength(z, reversed)

\* The count is never negative.
PrefixNonNegative ==
    \A reversed \in {0, 1} :
        \A j \in 1 .. Len(Zones(reversed)) : 0 <= Zones(reversed)[j].samplesAtStartWhichShouldBeReplaced


(***************************************************************************)
(* The loading loop of fillPercCache run by run (lines 513-666): one step  *)
(* is one pass through the body of do { ... } while (numSamples).  The     *)
(* loop's state is kept in last.st, the call's direction and environment   *)
(* beside it.                                                              *)
(***************************************************************************)
\* Where the loading starts and how many samples it is to go through, as distances
\* from the beginning of the waveform in the direction of play (lines 471-511).
RunStarts == {0, 100, 234, 3050, 4000}
RunLengths == {1, 234, 235, 236, 257, 300, 600}

RunEnvironments == {e \in Environments : e.tableOK /\ e.insertOK}

\* The loop's state when execution reaches line 513.
loopEntry(start, numSamples, playDirection, env, len) ==
    LET startPosSamples == IF playDirection = 1 THEN start ELSE len - 1 - start
    IN  [numSamples |-> numSamples, startPosSamples |-> startPosSamples,
         sourceBytePos |-> audioDataStartPosBytes + startPosSamples * bytesPerSample,
         zone |-> SamplePercCacheZone(startPosSamples), tab |-> {}, data |-> <<>>,
         slotBudget |-> env.slotBudget, error |-> NO_ERROR, stopped |-> FALSE, runs |-> 0]

InitRun ==
    /\ percCacheZones = <<<<>>, <<>>>>
    /\ percCacheClusters = <<[allocated |-> FALSE, slots |-> {}], [allocated |-> FALSE, slots |-> {}]>>
    /\ percCacheMemory = <<FALSE, FALSE>>
    /\ percCacheData = <<<<>>, <<>>>>
    /\ lengthInSamples \in SampleLengths
    /\ audio = NoAudio
    /\ divZero = 0
    /\ mainDirection \in {1, -1}
    /\ caches = <<>>
    /\ heap = {}
    /\ lock = TRUE
    /\ steps = 0
    /\ detect = DetectIdle
    /\ \E start \in RunStarts, numSamples \in RunLengths, env \in RunEnvironments :
          last = [op |-> "loop", playDirection |-> mainDirection, env |-> env,
                  from |-> loopEntry(start, numSamples, mainDirection, env, lengthInSamples),
                  st |-> loopEntry(start, numSamples, mainDirection, env, lengthInSamples)]

\* One pass through the loop body; the loop is left when a pass stops it or no
\* samples remain (line 666).
Run ==
    /\ last.op \in {"loop", "run"}
    /\ ~last.st.stopped /\ last.st.numSamples > 0
    /\ last' = [last EXCEPT !.op = "run", !.from = last.st,
                            !.st = fillOneRun(last.st, last.playDirection, last.env, lengthInSamples)]
    /\ UNCHANGED <<percCacheZones, percCacheClusters, percCacheMemory, percCacheData, lengthInSamples,
                   audio, divZero, mainDirection, caches, heap, lock, steps, detect>>

NextRun == Run

SpecRun == InitRun /\ [][NextRun]_vars

\* The samples the pass just made went through.
Consumed(l) == ((l.st.sourceBytePos - l.from.sourceBytePos) * l.playDirection) \div bytesPerSample

\* C26: each run of fill stays inside one source chunk: the number of samples consumed
\* in a run never exceeds floor(bytesLeftThisSourceCluster / bytesPerSample), that is,
\* every sample read in the run begins inside the source chunk selected for that run,
\* and every output byte of the run lands in the destination slot selected for it.
C26_RunInsideOneCluster ==
    last.op = "run" =>
        /\ Consumed(last) <= bytesLeftThisSourceCluster(last.from.sourceBytePos, Rev(last.playDirection))
                                 \div bytesPerSample
        /\ \A k \in 0 .. Consumed(last) - 1 :
              /\ Shr(last.from.sourceBytePos + k * bytesPerSample * last.playDirection, clusterSizeMagnitude)
                     = Shr(last.from.sourceBytePos, clusterSizeMagnitude)
              /\ Shr(last.from.startPosSamples + k * last.playDirection, bigShift)
                     = Shr(last.from.startPosSamples, bigShift)

\* The run never leaves the destination slot selected for it.
RunInsideOneSlot ==
    last.op = "run" =>
        \A k \in 0 .. Consumed(last) - 1 :
            Shr(last.from.startPosSamples + k * last.playDirection, bigShift)
                = Shr(last.from.startPosSamples, bigShift)

\* At most one sample of a run begins outside the source cluster selected for it.
RunOvershootsByOne ==
    last.op = "run" =>
        Consumed(last) <= bytesLeftThisSourceCluster(last.from.sourceBytePos, Rev(last.playDirection))
                              \div bytesPerSample + 1


\* Source cluster c holds audio data and is loaded during the call.
Resident(c, env, len) ==
    /\ c >= getFirstClusterIndexWithAudioData /\ c < getFirstClusterIndexWithNoAudioData(len)
    /\ c \notin env.missing

\* The source cluster the sample k samples into the pass begins in.
ClusterRead(l, k) ==
    Shr(l.from.sourceBytePos + k * bytesPerSample * l.playDirection, clusterSizeMagnitude)

\* The pass did not read: the position, the zone and the envelope are as before it.
NothingRead(l) ==
    /\ l.st.stopped
    /\ l.st.sourceBytePos = l.from.sourceBytePos /\ l.st.numSamples = l.from.numSamples
    /\ l.st.zone = l.from.zone /\ l.st.data = l.from.data /\ l.st.runs = l.from.runs

\* C27: fill re-validates residency before every run: it reads audio only from a source
\* chunk that is present and loaded at the start of that run, and stops without reading
\* at the first run whose source chunk is absent, not loaded, or outside the chunk
\* index range holding audio data.
C27_ReadsOnlyResident ==
    last.op = "run" =>
        /\ ~Resident(ClusterRead(last, 0), last.env, lengthInSamples) => NothingRead(last)
        /\ \A k \in 0 .. Consumed(last) - 1 : Resident(ClusterRead(last, k), last.env, lengthInSamples)

\* The source cluster selected for each pass is looked up and tested in that pass.
RevalidatesSelected ==
    last.op = "run" =>
        /\ ~Resident(ClusterRead(last, 0), last.env, lengthInSamples) => NothingRead(last)
        /\ Consumed(last) > 0 => Resident(ClusterRead(last, 0), last.env, lengthInSamples)

\* A pass has stopped at a cluster that is not loaded, after passes that read.
StoppedAtMissing ==
    /\ last.op = "run" /\ last.st.stopped /\ last.st.runs >= 1
    /\ ClusterRead(last, 0) \in last.env.missing

\* No source-cluster pointer outlives a call: a fill whose loading starts at a source
\* cluster that is not loaded during the call reads nothing, whatever earlier calls read.
NoPointerKept ==
    [][(FillStep /\ Loading(last') /\ last'.path \notin {"snap-nothing", "create-nothing"}
          /\ Shr(audioDataStartPosBytes + last'.resumePos * bytesPerSample, clusterSizeMagnitude)
                 \in last'.env.missing) =>
          (last'.processed = 0 /\ StoppedEarly(last'))]_vars


(***************************************************************************)
(* Repeated fills.  After at most PrefixSteps arbitrary fills and          *)
(* evictions the playback layer keeps calling fillPercCache with one       *)
(* request in one direction, while every source cluster is loaded, every   *)
(* allocation succeeds and nothing is evicted.                             *)
(***************************************************************************)
PrefixSteps == 2

\* What is recorded of a call; the index is -1 when no zone was looked up.
called(op, reversed, startPosSamples, endPosSamples, req, out, env) ==
    [op |-> op, reversed |-> reversed, startPosSamples |-> startPosSamples,
     endPosSamples |-> endPosSamples, maxNumSamplesToProcess |-> req[3],
     ret |-> out.ret, path |-> out.path, resumePos |-> out.resumePos, runs |-> out.runs,
     i |-> IF out.path \in {"beyond", "noStorage"} THEN 0 - 1 ELSE out.i,
     processed |-> samplesProcessed(out, Dir(reversed)), env |-> env]

PrefixFill ==
    /\ steps < PrefixSteps /\ last.op # "refill"
    /\ ~lock
    /\ \E playDirection \in {1, -1} :
       \E req \in RequestsFor(playDirection), env \in EnvironmentsFor(playDirection) :
          LET reversed == Rev(playDirection)
              startPosSamples == IF reversed = 0 THEN req[1] ELSE lengthInSamples - 1 - req[1]
              endPosSamples == IF reversed = 0 THEN req[2] ELSE lengthInSamples - 1 - req[2]
          IN  \E out \in fillPercCache(StateOf(reversed), startPosSamples, endPosSamples, playDirection,
                                       req[3], env, lengthInSamples) :
                  /\ Store(reversed, out.S)
                  /\ last' = called("fill", reversed, startPosSamples, endPosSamples, req, out, env)
    /\ lock' = FALSE
    /\ steps' = steps + 1
    /\ UNCHANGED <<lengthInSamples, audio, divZero, mainDirection, caches, heap, detect>>

PrefixEvict == steps < PrefixSteps /\ last.op # "refill" /\ Evict

\* Everything is loaded and every allocation succeeds.
Available ==
    [missing |-> {}, slotBudget |-> 4, tableOK |-> TRUE, insertOK |-> TRUE,
     aud |-> [wave |-> audio, divZero |-> divZero]]

Refill ==
    /\ ~lock
    /\ \E playDirection \in {1, -1} :
       \E req \in FillRequests :
          LET reversed == Rev(playDirection)
              startPosSamples == IF reversed = 0 THEN req[1] ELSE lengthInSamples - 1 - req[1]
              endPosSamples == IF reversed = 0 THEN req[2] ELSE lengthInSamples - 1 - req[2]
          IN  /\ last.op = "refill" =>
                     /\ reversed = last.reversed /\ startPosSamples = last.startPosSamples
                     /\ endPosSamples = last.endPosSamples
                     /\ req[3] = last.maxNumSamplesToProcess
              /\ \E out \in fillPercCache(StateOf(reversed), startPosSamples, endPosSamples, playDirection,
                                          req[3], Available, lengthInSamples) :
                    /\ Store(reversed, out.S)
                    /\ last' = called("refill", reversed, startPosSamples, endPosSamples, req, out, Available)
    /\ lock' = FALSE
    /\ UNCHANGED <<lengthInSamples, audio, divZero, mainDirection, caches, heap, detect, steps>>

NextProgress == PrefixFill \/ PrefixEvict \/ Refill

\* The playback layer keeps calling.
SpecProgress == Init /\ [][NextProgress]_vars /\ WF_vars(Refill)

\* How far the zone a fill from startPosSamples continues reaches: the endPos of the
\* zone found for it (lines 336-357), or startPosSamples when there is none.
Reach(zs, startPosSamples, reversed) ==
    LET i == findZone(zs, startPosSamples, reversed)
    IN  IF i >= 0 /\ i < NumElements(zs) /\ withinSlack(At(zs, i), startPosSamples, Dir(reversed))
        THEN At(zs, i).endPos
        ELSE startPosSamples

\* The call found its range covered already and processed nothing.
AlreadyCovered(l) == l.path \in {"covered", "snapBeyond", "beyond"}

\* Every repeated call that is not already covered strictly advances the zone it
\* continues.
RefillAdvances ==
    [][(last'.op = "refill" /\ ~AlreadyCovered(last')) =>
          /\ last'.processed >= 1
          /\ (Reach(percCacheZones'[last'.reversed + 1], last'.startPosSamples, last'.reversed)
                - Reach(percCacheZones[last'.reversed + 1], last'.startPosSamples, last'.reversed))
                 * Dir(last'.reversed) > 0]_vars

\* A repeated call has found the zone for startPos extending to endPos, clamped to
\* the file bounds, and has processed nothing.
RefillCovered ==
    /\ last.op = "refill" /\ AlreadyCovered(last) /\ last.processed = 0 /\ last.ret = NO_ERROR
    /\ last.path # "beyond" =>
           (Reach(Zones(last.reversed), last.startPosSamples, last.reversed)
              - clampToWaveform(last.endPosSamples, last.reversed, lengthInSamples)) * Dir(last.reversed) >= 0

\* C28: if fill is called repeatedly with the same direction, startPos and endPos and
\* with maxNumSamplesToProcess >= 1, while all source chunks stay loaded, allocations
\* succeed and no eviction occurs, then every call that is not already covered strictly
\* advances a zone's endPos, and eventually a call finds the zone containing startPos
\* extending to endPos (clamped to the file bounds) and processes nothing.
C28_Progress == RefillAdvances /\ <>RefillCovered

\* The repeated calls have covered a range that took several of them.
C28_Witness ==
    /\ RefillCovered /\ last.path = "covered"
    /\ last.maxNumSamplesToProcess < (last.endPosSamples - last.startPosSamples) * Dir(last.reversed)

\* The same holds of every repeated call that finds the zones well formed.
RefillAdvancesWellFormed ==
    [][(last'.op = "refill" /\ ~AlreadyCovered(last')
          /\ WellFormed(percCacheZones[last'.reversed + 1], last'.reversed)) =>
          /\ last'.processed >= 1
          /\ (Reach(percCacheZones'[last'.reversed + 1], last'.startPosSamples, last'.reversed)
                - Reach(percCacheZones[last'.reversed + 1], last'.startPosSamples, last'.reversed))
                 * Dir(last'.reversed) > 0]_vars


\* The zone the search of lines 336-342 finds for startPosSamples lies in the array
\* and ends no more than the slack before startPosSamples (line 356).
ContinuesZone(zs, startPosSamples, reversed) ==
    LET i == findZone(zs, startPosSamples, reversed)
    IN  /\ i >= 0 /\ i < NumElements(zs)
        /\ (At(zs, i).endPos - startPosSamples) * Dir(reversed) >= 0 - kSlack

\* The zone found for startPosSamples, after the slack snap, already reaches endPosSamples.
CoveredAtEntry(zs, startPosSamples, endPosSamples, reversed) ==
    /\ ContinuesZone(zs, startPosSamples, reversed)
    /\ (At(zs, findZone(zs, startPosSamples, reversed)).endPos - endPosSamples) * Dir(reversed) >= 0

ReturnLengths == {1000, 10000}

InitReturn ==
    /\ percCacheZones = <<<<>>, <<>>>>
    /\ percCacheClusters = <<[allocated |-> FALSE, slots |-> {}], [allocated |-> FALSE, slots |-> {}]>>
    /\ percCacheMemory = <<FALSE, FALSE>>
    /\ percCacheData = <<<<>>, <<>>>>
    /\ lengthInSamples \in ReturnLengths
    /\ audio = NoAudio
    /\ divZero = 0
    /\ mainDirection \in {1, -1}
    /\ caches = <<>>
    /\ heap = {}
    /\ lock = FALSE
    /\ last = [op |-> "init"]
    /\ steps = 0
    /\ detect = DetectIdle

SpecReturn == InitReturn /\ [][Next]_vars

\* The call got past the test of lines 281-291.
InsideWaveform(l) ==
    IF l.reversed = 0 THEN l.startPosSamples < lengthInSamples ELSE l.startPosSamples >= 0

\* The direction's storage (slot table or flat buffer) was missing at entry and its
\* allocation failed (lines 303-331).
StorageAllocationFailed(l) ==
    /\ InsideWaveform(l)
    /\ IF percCacheDoneWithClusters(lengthInSamples) THEN ~percCacheClusters[l.reversed + 1].allocated
       ELSE ~percCacheMemory[l.reversed + 1]
    /\ ~l.env.tableOK

\* No zone could be continued, and the insert of a new one failed (lines 450-457).
ZoneInsertFailed(l) ==
    /\ InsideWaveform(l) /\ ~StorageAllocationFailed(l)
    /\ ~ContinuesZone(percCacheZones[l.reversed + 1], l.startPosSamples, l.reversed)
    /\ ~l.env.insertOK

\* The loading stopped where a storage slot was needed and could not be had (lines
\* 532-546): the position it stopped at lies in the audio data and has no slot.
SlotAllocationFailed(l) ==
    LET stoppedAt == l.resumePos + l.processed * Dir(l.reversed)
        sourceClusterIndex == Shr(audioDataStartPosBytes + stoppedAt * bytesPerSample, clusterSizeMagnitude)
    IN  /\ StoppedEarly(l)
        /\ percCacheDoneWithClusters(lengthInSamples)
        /\ l.env.slotBudget = 0
        /\ sourceClusterIndex >= getFirstClusterIndexWithAudioData
        /\ sourceClusterIndex < getFirstClusterIndexWithNoAudioData(lengthInSamples)
        /\ Shr(stoppedAt, bigShift) \notin percCacheClusters'[l.reversed + 1].slots

\* C30: fill returns ERROR_INSUFFICIENT_RAM exactly when allocating the direction's
\* storage (flat buffer or slot table) or a storage slot failed, returns the
\* zone-insert error when inserting a new zone failed, and returns NO_ERROR in every
\* other case, including when it stopped early because a source chunk was not loaded.
C30_ReturnValue ==
    [][FillStep =>
          last'.ret = IF StorageAllocationFailed(last') \/ SlotAllocationFailed(last')
                      THEN ERROR_INSUFFICIENT_RAM
                      ELSE IF ZoneInsertFailed(last') THEN ERROR_INSERT
                      ELSE NO_ERROR]_vars

\* A fill stopped early at a source cluster that was not loaded and returned NO_ERROR.
C30_Witness ==
    /\ StoppedEarly(last) /\ last.ret = NO_ERROR /\ last.processed > 0
    /\ Shr(audioDataStartPosBytes + (last.resumePos + last.processed * Dir(last.reversed)) * bytesPerSample,
           clusterSizeMagnitude) \in last.env.missing

(***************************************************************************)
(* The zone guard at the return of fillPercCache and percCacheClusterStolen. *)
(***************************************************************************)
\* The guard as it is when the first event named `event' of a trace runs (FALSE when
\* the trace has no such event, as nothing then runs under the guard).
HeldAt(trace, event) ==
    \E k \in 1 .. Len(trace) :
        /\ trace[k] = event
        /\ \A j \in 1 .. k - 1 : trace[j] # event
        /\ guardAfter(FALSE, SubSeq(trace, 1, k - 1))

\* C31: whenever fillPercCache or percCacheClusterStolen has returned, on whichever exit
\* path, the guard is not held; and in fillPercCache it is not held when
\* updateClustersForPercLookahead (the call that may evict) runs.
C31_GuardReleased ==
    /\ last.op \in {"fill", "evict"} => ~lock
    /\ last.op = "fill" => ~HeldAt(fillGuardTrace(last.path), "updateClustersForPercLookahead")

\* A fill whose scan was aborted for want of a storage slot has returned through getOut.
C31_Witness ==
    /\ last.op = "fill"
    /\ last.ret = ERROR_INSUFFICIENT_RAM
    /\ last.runs > 0
    /\ "updateClustersForPercLookahead" \in {fillGuardTrace(last.path)[k] : k \in 1 .. Len(fillGuardTrace(last.path))}
    /\ ~lock

(***************************************************************************)
(* The valid range prepareToReadPercCache hands back, against the pixel    *)
(* that was asked for.                                                     *)
(***************************************************************************)
\* C32: whenever prepareToReadPercCache returns storage, pixellatedPos lies inside the
\* returned range in direction order: forward earliest <= pixellatedPos <= latest,
\* reversed latest <= pixellatedPos <= earliest.
C32_RequestedPixelInRange ==
    (last.op = "read" /\ last.out.ret # "NULL") =>
        IF last.reversed = 0
        THEN /\ last.out.earliestPixellatedPos <= last.pixellatedPos
             /\ last.pixellatedPos <= last.out.latestPixellatedPos
        ELSE /\ last.out.latestPixellatedPos <= last.pixellatedPos
             /\ last.pixellatedPos <= last.out.earliestPixellatedPos

\* The same for reads played in reverse, and for the far end of forward reads.
RequestedPixelInRangeReversed ==
    (last.op = "read" /\ last.out.ret # "NULL") =>
        IF last.reversed = 0
        THEN last.pixellatedPos <= last.out.latestPixellatedPos
        ELSE /\ last.out.latestPixellatedPos <= last.pixellatedPos
             /\ last.pixellatedPos <= last.out.earliestPixellatedPos

(***************************************************************************)
(* The scratch buffer of determinePitch (fftInput, with the output and the *)
(* index table behind it): allocated at line 1280, released by             *)
(* delugeDealloc.                                                          *)
(***************************************************************************)
\* C33: a call of determinePitch whose allocation succeeded has released the scratch
\* buffer exactly once when it returns, on every return path, and never more than once.
C33_ScratchFreedOnce ==
    (detect.pc # "idle" /\ detect.fftInput) =>
        /\ detect.deallocs <= 1
        /\ detect.pc = "returned" => detect.deallocs = 1

\* The same on every return path but that of line 1305 (lengthDoublings reaching 10), and
\* nothing is released when nothing was allocated.
ScratchFreedOnceFromStartAgain ==
    detect.pc # "idle" =>
        /\ detect.deallocs <= 1
        /\ (detect.pc = "returned" /\ detect.fftInput /\ detect.path # "insane doublings") => detect.deallocs = 1
        /\ (detect.pc = "returned" /\ detect.path = "insane doublings") => detect.deallocs = 0
        /\ ~detect.fftInput => detect.deallocs = 0
        /\ (detect.pc # "returned" /\ detect.fftInput) => detect.deallocs = 0

(***************************************************************************)
(* Termination of determinePitch.  The call runs to its return without     *)
(* giving up the processor for good: once begun, each of its steps is      *)
(* taken; when the next call begins is up to the caller.                   *)
(***************************************************************************)
DetectRuns ==
    DetectStartAgain \/ DetectLoop \/ DetectRead \/ DetectDoneReading \/ DetectAnalyse

SpecDetectFair == InitDetect /\ [][NextDetect]_vars /\ WF_vars(DetectRuns)

\* The passes of one call: at most one with the reduced threshold, and one more for each
\* doubling of the low-frequency restart.
PassesBounded ==
    detect.pc # "idle" =>
        /\ detect.passes <= 2 + kMaxLengthDoublings
        /\ detect.reducedPasses <= 1
        /\ detect.lengthDoublings <= Max(detect.defaultLengthDoublings + kMaxLengthDoublings,
                                         kInsaneLengthDoublings)

\* C34: determinePitch terminates: a call that has begun returns, and no more than
\* 2 + kMaxLengthDoublings analysis passes run in one call.
C34_Terminates ==
    /\ []PassesBounded
    /\ (detect.pc \notin {"idle", "returned"}) ~> (detect.pc = "returned")

\* A call that ran the pass with the reduced threshold and every low-frequency restart.
C34_Witness ==
    /\ detect.pc = "returned"
    /\ detect.reducedPasses = 1
    /\ detect.passes = 2 + kMaxLengthDoublings
    /\ detect.path = "freq"

(***************************************************************************)
(* The onset cache: beginningOffsetForPitchDetectionFound and              *)
(* beginningOffsetForPitchDetection, fields of the Sample.                 *)
(***************************************************************************)
\* the bytes of one analysis window: (kPitchDetectWindowSize << lengthDoublings) frames
WindowBytes(lengthDoublings) == (kPitchDetectWindowSize * (2 ^ lengthDoublings)) * numChannels * byteDepth

EndOfAudio == audioDataStartPosBytes + audioDataLengthBytes(DetectLength)

\* the step that stores the onset: the flag goes from false to true
OnsetStored == ~detect.beginningOffsetForPitchDetectionFound /\ detect'.beginningOffsetForPitchDetectionFound

\* C35: once beginningOffsetForPitchDetectionFound is true it is never cleared and
\* beginningOffsetForPitchDetection never changes again; every pass begun after that, in
\* the same call or a later one, starts reading at the cached offset and runs no onset
\* detection; and when the offset is first stored it is not before the position where the
\* onset was detected and, if a full window still fits after that position, leaves a full
\* window before the end of the audio data.
C35_OnsetCache ==
    [][/\ detect.beginningOffsetForPitchDetectionFound =>
             /\ detect'.beginningOffsetForPitchDetectionFound
             /\ detect'.beginningOffsetForPitchDetection = detect.beginningOffsetForPitchDetection
             /\ (detect.pc \in {"loop", "read"} /\ detect'.pc # "returned") =>
                    detect'.biggestValueFound = detect.biggestValueFound
       /\ (detect.pc = "startAgain" /\ detect'.pc = "loop" /\ detect.beginningOffsetForPitchDetectionFound) =>
             /\ detect'.currentOffset = detect.beginningOffsetForPitchDetection
             /\ detect'.biggestValueFound = 0
       /\ OnsetStored =>
             /\ detect'.beginningOffsetForPitchDetection >= detect.currentOffset + byteDepth
             /\ (detect.currentOffset + byteDepth + WindowBytes(detect.lengthDoublings) <= EndOfAudio) =>
                    detect'.beginningOffsetForPitchDetection + WindowBytes(detect.lengthDoublings) <= EndOfAudio
      ]_vars

\* A later call on the Sample begins a pass at an offset an earlier call stored, which the
\* shift to the left had moved.
C35_Witness ==
    /\ detect.pc = "loop"
    /\ detect.calls = 2
    /\ detect.beginningOffsetForPitchDetectionFound
    /\ detect.biggestValueFound = 0
    /\ detect.currentOffset = detect.beginningOffsetForPitchDetection
    /\ detect.beginningOffsetForPitchDetection + WindowBytes(detect.lengthDoublings) = EndOfAudio

(***************************************************************************)
(* The division of line 654, one perc pixel segment at a time: the first   *)
(* run of a fill that begins a new zone at SegmentStarts, over audio that  *)
(* is loaded.  last.loop is the state of the inner do-while.               *)
(***************************************************************************)
SegmentStarts == {0, 100, 2000, 4000, 4070, 5000}
SegmentRun == 200

\* Line 645: the segment ended where a byte of the envelope is derived.
derivesByte(loop, reversed) ==
    Mask(loop.startPosSamples, kPercBufferReductionMagnitude) = kPercBufferReductionSize \div 2 - reversed

\* Line 654: the divisor, angle, is what the cascade's last pole holds after the segment.
divisorOf(loop) == loop.zone.angleLPFMem[2]

InitSegment ==
    /\ percCacheZones = <<<<>>, <<>>>>
    /\ percCacheClusters = <<[allocated |-> FALSE, slots |-> {}], [allocated |-> FALSE, slots |-> {}]>>
    /\ percCacheMemory = <<FALSE, FALSE>>
    /\ percCacheData = <<<<>>, <<>>>>
    /\ lengthInSamples \in SampleLengths
    /\ audio \in Waveforms
    /\ divZero \in DivZeroOutcomes
    /\ mainDirection \in {1, -1}
    /\ caches = <<>>
    /\ heap = {}
    /\ lock = TRUE
    /\ steps = 0
    /\ detect = DetectIdle
    /\ \E start \in SegmentStarts :
          LET reversed == Rev(mainDirection)
              startPosSamples == Mirror(reversed, start)
              sourceBytePos == audioDataStartPosBytes + startPosSamples * bytesPerSample
          IN  last = [op |-> "run", reversed |-> reversed, segments |-> 0,
                      loop |-> [zone |-> SamplePercCacheZone(startPosSamples), data |-> <<>>,
                                startPosSamples |-> startPosSamples, sourceBytePos |-> sourceBytePos,
                                n |-> numSamplesThisRun(SegmentRun, sourceBytePos, reversed)]]

Segment ==
    /\ last.op \in {"run", "segment"}
    /\ last.loop.n > 0
    /\ last' = [last EXCEPT !.op = "segment", !.segments = @ + 1,
                            !.loop = percPixelSegment(last.loop, Dir(last.reversed),
                                                      [wave |-> audio, divZero |-> divZero])]
    /\ UNCHANGED <<percCacheZones, percCacheClusters, percCacheMemory, percCacheData, lengthInSamples, audio,
                   divZero, mainDirection, caches, heap, lock, steps, detect>>

NextSegment == Segment

SpecSegment == InitSegment /\ [][NextSegment]_vars

\* C36: whenever fillPercCache derives a byte of the envelope, the divisor of the
\* percussiveness computation (the smoothed angle) is not zero.
C36_DivisorNonzero ==
    (last.op = "segment" /\ derivesByte(last.loop, last.reversed)) => divisorOf(last.loop) # 0

\* The divisor is never negative, and over the ramp it is positive from the second byte on.
DivisorNonzeroWhenLoud ==
    (last.op = "segment" /\ derivesByte(last.loop, last.reversed)) =>
        /\ divisorOf(last.loop) >= 0
        /\ (audio = "ramp" /\ last.segments >= 2) => divisorOf(last.loop) > 0

(***************************************************************************)
(* Sample::workOutMIDINote, lines 1008-1041.  midiNote is MIDI_NOTE_UNSET  *)
(* from the constructor (line 73) and midiNoteFromFile is -1 (line 87)     *)
(* until the file gives a note.  The frequencies of the model are 440 Hz   *)
(* times a power of two, for which 69 + log2f(freq / 440) * 12 is exact.   *)
(***************************************************************************)
MIDI_NOTE_UNSET == 0 - 999
MIDI_NOTE_ERROR == 0 - 1000
MaxNoteCalls == 3

NoteSampleRates == {44000}
NoteLengths == {50, 100, 200}
NotesFromFile == {0 - 1, 60}
\* what determinePitch returns: 0 for an error, or the frequency in Hz
DetectedFrequencies == {0, 110, 440, 1760}

\* Line 1035: 69 + log2f(freq / 440) * 12 for freq = num / den, octave by octave.
RECURSIVE calculateMIDINote(_, _)
calculateMIDINote(num, den) ==
    IF num >= 880 * den THEN 12 + calculateMIDINote(num, 2 * den)
    ELSE IF num < 440 * den THEN calculateMIDINote(2 * num, den) - 12
    ELSE 69

\* workOutMIDINote with the note from the file taken before the single-cycle length.
workOutMIDINoteFileFirst(s, doingSingleCycle, freqDetected) ==
    IF s.midiNote = MIDI_NOTE_UNSET \/ s.midiNote = MIDI_NOTE_ERROR
    THEN IF s.midiNoteFromFile # 0 - 1 THEN [s EXCEPT !.midiNote = s.midiNoteFromFile]
         ELSE IF doingSingleCycle
         THEN [s EXCEPT !.midiNote = calculateMIDINote(s.sampleRate, s.lengthInSamples)]
         ELSE IF freqDetected = 0
              THEN [s EXCEPT !.midiNote = MIDI_NOTE_ERROR, !.detections = @ + 1]
              ELSE [s EXCEPT !.midiNote = calculateMIDINote(freqDetected, 1), !.detections = @ + 1]
    ELSE s

\* s is the Sample: midiNote, midiNoteFromFile, sampleRate, lengthInSamples, and the
\* number of times determinePitch has run; freqDetected is what determinePitch returns
\* if it is called.
workOutMIDINote(s, doingSingleCycle, freqDetected) ==
    IF s.midiNote = MIDI_NOTE_UNSET \/ s.midiNote = MIDI_NOTE_ERROR
    THEN IF doingSingleCycle
         THEN [s EXCEPT !.midiNote = calculateMIDINote(s.sampleRate, s.lengthInSamples)]
         ELSE IF s.midiNoteFromFile # 0 - 1 THEN [s EXCEPT !.midiNote = s.midiNoteFromFile]
         ELSE IF freqDetected = 0
              THEN [s EXCEPT !.midiNote = MIDI_NOTE_ERROR, !.detections = @ + 1]
              ELSE [s EXCEPT !.midiNote = calculateMIDINote(freqDetected, 1), !.detections = @ + 1]
    ELSE s

InitNote ==
    /\ percCacheZones = <<<<>>, <<>>>>
    /\ percCacheClusters = <<[allocated |-> FALSE, slots |-> {}], [allocated |-> FALSE, slots |-> {}]>>
    /\ percCacheMemory = <<FALSE, FALSE>>
    /\ percCacheData = <<<<>>, <<>>>>
    /\ lengthInSamples \in NoteLengths
    /\ audio = NoAudio
    /\ divZero = 0
    /\ mainDirection = 1
    /\ caches = <<>>
    /\ heap = {}
    /\ lock = FALSE
    /\ steps = 0
    /\ detect = DetectIdle
    /\ \E midiNoteFromFile \in NotesFromFile, sampleRate \in NoteSampleRates :
          last = [op |-> "Sample", doingSingleCycle |-> FALSE, freqDetected |-> 0,
                  sample |-> [midiNote |-> MIDI_NOTE_UNSET, midiNoteFromFile |-> midiNoteFromFile,
                              sampleRate |-> sampleRate, lengthInSamples |-> lengthInSamples,
                              detections |-> 0]]

WorkOutMIDINote ==
    /\ steps < MaxNoteCalls
    /\ \E doingSingleCycle \in BOOLEAN, freqDetected \in DetectedFrequencies :
          last' = [op |-> "workOutMIDINote", doingSingleCycle |-> doingSingleCycle,
                   freqDetected |-> freqDetected,
                   sample |-> workOutMIDINote(last.sample, doingSingleCycle, freqDetected)]
    /\ steps' = steps + 1
    /\ UNCHANGED <<percCacheZones, percCacheClusters, percCacheMemory, percCacheData, lengthInSamples, audio,
                   divZero, mainDirection, caches, heap, lock, detect>>

NextNote == WorkOutMIDINote

SpecNote == InitNote /\ [][NextNote]_vars

NoteWanted(s) == s.midiNote \in {MIDI_NOTE_UNSET, MIDI_NOTE_ERROR}

\* C37: workOutMIDINote changes midiNote only when it is unset or in the error state, and
\* then takes the single-cycle length (sampleRate / lengthInSamples) when doing single
\* cycle, else the note of the file when there is one, else the pitch detector, which
\* runs only in that last case and whose result 0 gives MIDI_NOTE_ERROR; called when
\* midiNote holds a note, it leaves midiNote alone and runs no detection.
C37_NotePriority ==
    [][steps' = steps + 1 =>
         LET s == last.sample
             t == last'.sample
             detected == t.detections = s.detections + 1
         IN  /\ t.detections \in {s.detections, s.detections + 1}
             /\ ~NoteWanted(s) => (t.midiNote = s.midiNote /\ ~detected)
             /\ (NoteWanted(s) /\ last'.doingSingleCycle) =>
                    /\ t.midiNote = calculateMIDINote(s.sampleRate, lengthInSamples)
                    /\ ~detected
             /\ (NoteWanted(s) /\ ~last'.doingSingleCycle /\ s.midiNoteFromFile # 0 - 1) =>
                    (t.midiNote = s.midiNoteFromFile /\ ~detected)
             /\ (NoteWanted(s) /\ ~last'.doingSingleCycle /\ s.midiNoteFromFile = 0 - 1) =>
                    /\ detected
                    /\ t.midiNote = IF last'.freqDetected = 0 THEN MIDI_NOTE_ERROR
                                    ELSE calculateMIDINote(last'.freqDetected, 1)
             /\ t.midiNoteFromFile = s.midiNoteFromFile
      ]_vars

\* A call that found the error state left by a failed detection took the single-cycle
\* length although the file has no note, and detection had run once.
C37_Witness ==
    /\ last.op = "workOutMIDINote"
    /\ last.doingSingleCycle
    /\ steps = 2
    /\ last.sample.detections = 1
    /\ last.sample.midiNoteFromFile = 0 - 1
    /\ last.sample.midiNote = 81

(***************************************************************************)
(* deluge::static_vector<T, Capacity> over storage::trivial: an array      *)
(* data_ of Capacity elements and the count size_ of the live ones.        *)
(* Iterators are indices into data_: begin() is 0 and end() is size_.      *)
(* Two vectors v and w are built and changed by the operations below;      *)
(* last keeps the operation, its arguments, what it returned and v as it   *)
(* was before.                                                             *)
(***************************************************************************)
Capacity == 3
MaxVectorOps == 4
Elements == {1, 2}

EmptyVector == [data_ |-> [i \in 0 .. Capacity - 1 |-> 0], size_ |-> 0]

\* the live elements, in order
Live(v) == [i \in 1 .. v.size_ |-> v.data_[i - 1]]

full(v) == v.size_ = Capacity

\* emplace_back: data_[size_++] = T(x)
push_back(v, x) == [v EXCEPT !.data_[v.size_] = x, !.size_ = @ + 1]

\* while (n != 0) { push_back(x); --n; }
RECURSIVE push_back_n(_, _, _)
push_back_n(v, n, x) == IF n = 0 THEN v ELSE push_back_n(push_back(v, x), n - 1, x)

\* std::rotate(first, middle, last): [middle, last) comes first, then [first, middle)
rotate(data, first, middle, lastIt) ==
    [i \in DOMAIN data |->
        IF i < first \/ i >= lastIt THEN data[i]
        ELSE IF i < first + (lastIt - middle) THEN data[middle + (i - first)]
        ELSE data[first + (i - first - (lastIt - middle))]]

\* insert with the new elements left at the end, where push_back put them.
insertWithoutRotate(v, position, n, x) == push_back_n(v, n, x)

\* insert(position, n, x), lines 673-689
insert(v, position, n, x) ==
    LET b == v.size_
        pushed == push_back_n(v, n, x)
    IN  [pushed EXCEPT !.data_ = rotate(pushed.data_, position, b, pushed.size_)]

\* std::move(first, last, d_first) towards the front: element by element
moveRange(data, first, lastIt, d_first) ==
    [i \in DOMAIN data |->
        IF i >= d_first /\ i < d_first + (lastIt - first) THEN data[first + (i - d_first)] ELSE data[i]]

\* erase(first, last), lines 751-760
erase(v, first, lastIt) ==
    IF first # lastIt
    THEN [data_ |-> moveRange(v.data_, lastIt, v.size_, first), size_ |-> v.size_ - (lastIt - first)]
    ELSE v

\* at(pos), lines 597-601: std::begin(*this)[pos], declared noexcept
at(v, pos) == [ret |-> "reference", index |-> pos]

\* std::equal over two ranges with a predicate: the same length, and the predicate holds
\* for every pair of corresponding elements
equal(a, b, pred(_, _)) ==
    /\ a.size_ = b.size_
    /\ \A i \in 0 .. a.size_ - 1 : pred(a.data_[i], b.data_[i])

equal_to(x, y) == x = y
less(x, y) == x < y

\* operator== (lines 932-935) and operator< (lines 937-940)
operatorEqual(a, b) == a.size_ = b.size_ /\ equal(a, b, equal_to)
operatorLess(a, b) == equal(a, b, less)

NoCall == [position |-> 0, n |-> 0, x |-> 0, ret |-> "void", index |-> 0, before |-> EmptyVector,
           follows |-> "", original |-> EmptyVector,
           less |-> FALSE, greater |-> FALSE, equal |-> FALSE, lessItself |-> FALSE]

InitVector ==
    /\ percCacheZones = <<<<>>, <<>>>>
    /\ percCacheClusters = <<[allocated |-> FALSE, slots |-> {}], [allocated |-> FALSE, slots |-> {}]>>
    /\ percCacheMemory = <<FALSE, FALSE>>
    /\ percCacheData = <<<<>>, <<>>>>
    /\ lengthInSamples \in SampleLengths
    /\ audio = NoAudio
    /\ divZero = 0
    /\ mainDirection = 1
    /\ caches = <<>>
    /\ heap = {}
    /\ lock = FALSE
    /\ steps = 0
    /\ detect = DetectIdle
    /\ last = [op |-> "static_vector", v |-> EmptyVector, w |-> EmptyVector, call |-> NoCall]

VectorUnchanged ==
    UNCHANGED <<percCacheZones, percCacheClusters, percCacheMemory, percCacheData, lengthInSamples, audio,
                divZero, mainDirection, caches, heap, lock, detect>>

\* w.push_back(x)
PushBackOther ==
    /\ steps < MaxVectorOps
    /\ ~full(last.w)
    /\ \E x \in Elements :
          last' = [last EXCEPT !.op = "push_back", !.w = push_back(last.w, x),
                               !.call = [NoCall EXCEPT !.x = x, !.before = last.v]]
    /\ steps' = steps + 1
    /\ VectorUnchanged

\* v.insert(position, n, x), within its contract: position in [begin(), end()] and
\* size() + n <= capacity()
Insert ==
    /\ steps < MaxVectorOps
    /\ \E position \in 0 .. last.v.size_, n \in 0 .. Capacity - last.v.size_, x \in Elements :
          last' = [last EXCEPT !.op = "insert", !.v = insert(last.v, position, n, x),
                               !.call = [NoCall EXCEPT !.position = position, !.n = n, !.x = x,
                                                       !.index = position, !.ret = "iterator",
                                                       !.before = last.v]]
    /\ steps' = steps + 1
    /\ VectorUnchanged

\* v.erase(first, last), within its contract: begin() <= first <= last <= end()
Erase ==
    /\ steps < MaxVectorOps
    /\ \E first \in 0 .. last.v.size_ :
       \E lastIt \in first .. last.v.size_ :
          last' = [last EXCEPT !.op = "erase", !.v = erase(last.v, first, lastIt),
                               !.call = [NoCall EXCEPT !.position = first, !.n = lastIt - first,
                                                       !.index = first, !.ret = "iterator",
                                                       !.before = last.v, !.follows = last.op,
                                                       !.original = last.call.before]]
    /\ steps' = steps + 1
    /\ VectorUnchanged

\* v.at(pos), for any pos inside the storage
At_ ==
    /\ steps < MaxVectorOps
    /\ \E pos \in 0 .. Capacity - 1 :
          last' = [last EXCEPT !.op = "at",
                               !.call = [NoCall EXCEPT !.position = pos, !.ret = at(last.v, pos).ret,
                                                       !.index = at(last.v, pos).index,
                                                       !.before = last.v]]
    /\ steps' = steps + 1
    /\ VectorUnchanged

\* v < w, w < v, v == w and v < v
Compare ==
    /\ steps < MaxVectorOps
    /\ last' = [last EXCEPT !.op = "compare",
                            !.call = [NoCall EXCEPT !.ret = "bool", !.before = last.v,
                                                    !.less = operatorLess(last.v, last.w),
                                                    !.greater = operatorLess(last.w, last.v),
                                                    !.equal = operatorEqual(last.v, last.w),
                                                    !.lessItself = operatorLess(last.v, last.v)]]
    /\ steps' = steps + 1
    /\ VectorUnchanged

NextVector == PushBackOther \/ Insert \/ Erase \/ At_ \/ Compare

SpecVector == InitVector /\ [][NextVector]_vars

\* C38: static_vector::at(pos) is checked access: for pos >= size() it reports
\* out_of_range and returns no reference to storage outside the live elements.
C38_AtIsChecked ==
    (last.op = "at" /\ last.call.position >= last.v.size_) => last.call.ret = "out_of_range"

\* at(pos) inside the live elements returns the reference to element pos.
AtInsideLive ==
    (last.op = "at" /\ last.call.position < last.v.size_) =>
        (last.call.ret = "reference" /\ last.call.index = last.call.position)

\* C39: for any vector and n with size() + n <= Capacity, insert(position, n, x) leaves
\* the elements before position as they were, puts n copies of x at [position,
\* position + n), keeps the former elements from position on after them in their order
\* and raises size() by n; erase(position, position + n) right after it restores the
\* contents and the size; and size() <= Capacity at all times.
C39_InsertErase ==
    [][steps' = steps + 1 =>
         LET v == last.v
             t == last'.v
             c == last'.call
         IN  /\ t.size_ <= Capacity
             /\ last'.op = "insert" =>
                    /\ t.size_ = v.size_ + c.n
                    /\ \A i \in 0 .. c.position - 1 : t.data_[i] = v.data_[i]
                    /\ \A i \in c.position .. c.position + c.n - 1 : t.data_[i] = c.x
                    /\ \A i \in c.position .. v.size_ - 1 : t.data_[i + c.n] = v.data_[i]
                    /\ c.index = c.position
             /\ (/\ last.op = "insert" /\ last'.op = "erase"
                 /\ c.position = last.call.position /\ c.n = last.call.n) =>
                    /\ Live(t) = Live(last.call.before)
                    /\ t.size_ = last.call.before.size_
      ]_vars

\* A copy of an element was inserted between two elements and erased again.
C39_Witness ==
    /\ last.op = "erase" /\ last.call.follows = "insert"
    /\ last.call.position = 1 /\ last.call.n = 1
    /\ Live(last.call.original) = <<1, 2>>
    /\ Live(last.call.before) = <<1, 2, 2>>
    /\ Live(last.v) = <<1, 2>>

\* C40: operator< on static_vectors is a strict ordering consistent with operator==:
\* a < a is false, a < b and b < a never both hold, and a == b implies not (a < b),
\* for empty vectors too.
C40_LessIsStrict ==
    last.op = "compare" =>
        /\ ~last.call.lessItself
        /\ ~(last.call.less /\ last.call.greater)
        /\ last.call.equal => ~last.call.less

\* The same where one of the two vectors has an element; and operator< is no
\* lexicographical order: it holds only between vectors of the same length, element by element.
LessIsStrictUnlessEmpty ==
    last.op = "compare" =>
        /\ (last.v.size_ > 0 \/ last.w.size_ > 0) =>
              /\ ~(last.call.less /\ last.call.greater)
              /\ last.call.equal => ~last.call.less
        /\ last.v.size_ > 0 => ~last.call.lessItself
        /\ last.call.less => last.v.size_ = last.w.size_
        /\ (last.v.size_ = 0 /\ last.w.size_ = 0) => (last.call.less /\ last.call.equal /\ last.call.lessItself)

====
